---- MODULE Spec2Model ----
(***************************************************************************)
(* A model of ebook-rs: the incremental catalog scanner of                 *)
(* server/state.rs over the SQLite store of db/schema.rs, and the          *)
(* reading-state writes of db/schema.rs.                                   *)
(***************************************************************************)
EXTENDS Integers, Sequences, FiniteSets, TLC

(***************************************************************************)
(* Bounds of the model.                                                    *)
(***************************************************************************)
\* filesystem changes made by the environment
MaxFsOps == 1
\* calls of scan_all_libraries
MaxCalls == 2
\* the wall clock, in seconds, runs 0..MaxNow
MaxNow == 1
\* calls of scan_all_libraries made by concurrent threads
MaxConcCalls == 3
\* store operations that fail with an error
MaxStoreErrors == 1
\* extract_metadata calls that fail
MaxExtractFailures == 1
\* requests of reading devices to the sync API
MaxSyncCalls == 2
\* progress reports of the devices
MaxProgressWrites == 3
\* highlights and bookmarks sent by the devices
MaxNoteCalls == 2
\* calls of the store's book operations
MaxStoreCalls == 2
\* restarts of the server process
MaxRestarts == 1
\* filesystem changes and scans of a server started on an old database
MaxSkipFsOps == 1
MaxSkipScans == 1
\* the values of scan.workers a configuration file sets: 0 .. MaxWorkers
MaxWorkers == 2
\* scans while the pool is watched
MaxPoolScans == 1
\* requests of reading devices while the pool is watched
MaxPoolSyncs == 1

(***************************************************************************)
(* The filesystem tree: directory "top" holds p1, p2 and directory "sub",  *)
(* which holds p3.                                                         *)
(***************************************************************************)
Paths == {"top/a.pdf", "top/b.epub", "top/sub/c.azw3"}
Dirs == {"top", "top/sub"}
Parent(p) == IF p = "top/sub/c.azw3" THEN "top/sub" ELSE "top"
Within(d) == IF d = "top" THEN {"top", "top/sub"} ELSE {d}
\* the files a recursive walk from root can reach
Under(root) == {p \in Paths : Parent(p) \in Within(root)}
Sizes == {1, 2}
Mtimes == {1, 2}
NoFile == [size |-> 0, mtime |-> 0]
Threads == {"t1", "t2"}
Null == "null"
\* config.rs: scan.workers when the configuration does not set it
default_scan_workers == 1
\* Option<i64> and Option<f64>, NULL in a numeric column
None == << >>
Some(x) == << x >>

(***************************************************************************)
(* BookFormat::from_extension and format!("{:?}", f).to_lowercase().       *)
(***************************************************************************)
Extension(p) ==
  CASE p = "top/a.pdf" -> "pdf"
    [] p = "top/b.epub" -> "epub"
    [] OTHER -> "azw3"

from_extension(ext) ==
  CASE ext = "epub" -> "Epub"
    [] ext = "pdf" -> "Pdf"
    [] ext \in {"mobi", "azw", "azw3"} -> "Mobi"
    [] OTHER -> Null

DebugLower(format) ==
  CASE format = "Epub" -> "epub"
    [] format = "Pdf" -> "pdf"
    [] format = "Mobi" -> "mobi"
    [] OTHER -> Null

(***************************************************************************)
(* The libraries table, as list_libraries returns it (ORDER BY name).      *)
(* The second library's root lies inside the first one's.                  *)
(***************************************************************************)
LibIds == {"L1", "L2"}
list_libraries ==
  << [id |-> "L1", path |-> "top"], [id |-> "L2", path |-> "top/sub"] >>

\* the ids of the users the requests of the sync API authenticate as
Users == {"u1", "u2"}

VARIABLES
  dirs,       \* the directories that exist
  files,      \* path -> [size, mtime], NoFile when the file does not exist
  unreadable, \* the files whose directory entry or metadata cannot be read
  now,        \* the wall clock (seconds)
  books,      \* the books table: id -> StoredBook, for the ids stored
  mirror,     \* AppState.books: the in-memory cache, a set of Book values
  loaded,     \* AppState.loaded
  scanning,   \* AppState.scanning
  scan,       \* per thread: the position and locals of its scan_all_libraries
  started,    \* main has run its startup load_from_db
  dropped,    \* calls that returned because a scan was in progress
  budget,     \* what the environment may still do: filesystem changes (fs),
              \* calls of scan_all_libraries (calls), store errors (errors),
              \* extract_metadata and thread pool failures (failures), sync
              \* requests (sync),
              \* and the last second the clock reaches (horizon)
  foreign_keys,     \* whether the SQLite build enforces FOREIGN KEY clauses
  reading_progress, \* the reading_progress table: a set of rows
  progress_seq,     \* the AUTOINCREMENT counter of reading_progress
  sdr_backups,      \* the sdr_backups table: a set of rows
  highlights,       \* the highlights table: id -> row
  bookmarks,        \* the bookmarks table: id -> row
  call,       \* the latest call of the store made by a request: what was
              \* called, with what, on which table contents, and whether it
              \* returned Ok (history, not program state)
  pool,       \* the rayon pool of the batch in progress: the configured
              \* scan.workers and the closures its threads are running
  db_lock,    \* Database.conn: who holds the mutex, Null when it is free
  users,      \* the users table: id -> row
  sessions,   \* the sessions table: token -> row
  libraries,  \* the libraries table: id -> row
  issued,     \* the tokens generate_token has returned so far, and for each
              \* whether logout was called with it, the user it was issued
              \* to and whether that user was deleted since (history)
  cover_cache, \* the files of cache.covers_dir: book id -> bytes
  cover_req,  \* per request thread: the position and locals of its get_cover
  hist        \* per key, the first and the latest write that succeeded, and
              \* per user and book the latest progress written (history,
              \* not program state)

vars == << dirs, files, unreadable, now, books, mirror, loaded, scanning, scan,
           started, dropped, budget, foreign_keys, reading_progress,
           progress_seq, sdr_backups, highlights, bookmarks, call, pool,
           db_lock, users, sessions, libraries, issued, cover_cache,
           cover_req, hist >>

fsVars == << dirs, files, unreadable >>

\* the state that only some specifications move
authVars == << users, sessions, libraries, issued >>
coverVars == << cover_cache, cover_req >>
otherVars == << pool, db_lock, authVars, coverVars >>

syncVars == << foreign_keys, reading_progress, progress_seq, sdr_backups,
               highlights, bookmarks, call, hist, otherVars >>

\* the reading state of the progress and SDR tables
progressVars == << reading_progress, progress_seq, sdr_backups, hist >>

\* the annotations
noteVars == << highlights, bookmarks >>

NoCall == [op |-> "none"]

\* hash_password: an Argon2 hash, which verify_password matches against the
\* password it was made of and no other
hash_password(password) == << "argon2", password >>

\* verify_password that takes every password for the right one
verify_password_any(password, hash) == TRUE

verify_password(password, hash) ==
  hash = << "argon2", password >>

\* the rows of the users the sync API authenticates as, and of the libraries
\* the scans walk; no session yet, no token generated
UserNames == [u \in Users |-> IF u = "u1" THEN "alice" ELSE "bob"]
InitTables ==
  /\ users = [u \in Users |->
               [id |-> u, username |-> UserNames[u],
                password_hash |-> hash_password("secret"),
                display_name |-> Null, role |-> "user", created_at |-> 0,
                last_login |-> None]]
  /\ sessions = << >>
  /\ libraries = [l \in LibIds |->
                   [id |-> l,
                    name |-> l,
                    path |-> (CHOOSE r \in {list_libraries[i] :
                                i \in DOMAIN list_libraries} : r.id = l).path,
                    is_public |-> TRUE, owner_id |-> Null, created_at |-> 0]]
  /\ issued = << >>

\* an empty cache.covers_dir, no cover request in progress
CoverThreads == {"r1", "r2"}
IdleCover == [pc |-> "idle"]
InitCovers ==
  /\ cover_cache = << >>
  /\ cover_req = [r \in CoverThreads |-> IdleCover]

\* scan.workers as default_scan_workers gives it, no batch in progress, the
\* store's mutex free
InitOther ==
  /\ pool = [workers |-> default_scan_workers, active |-> {}]
  /\ db_lock = Null
  /\ InitTables
  /\ InitCovers

(***************************************************************************)
(* The id of a book.                                                       *)
(***************************************************************************)
\* an id that follows the size and the mtime of the file at the path
new_v5_stat(p) == <<"uuid5", p, files[p]>>

\* Uuid::new_v5(NAMESPACE_URL, path): a function of the path bytes alone
new_v5(p) == <<"uuid5", p>>
BookIds == {new_v5(p) : p \in Paths}
PathOf(i) == i[2]

(***************************************************************************)
(* Per-library counters of one scan.                                       *)
(***************************************************************************)
ZeroCount == [new |-> 0, updated |-> 0, unchanged |-> 0, removed |-> 0]
NoStats == [l \in LibIds |-> ZeroCount]

\* a thread that is not inside scan_all_libraries
IdleScan ==
  [ pc |-> "idle", libs |-> << >>, lib |-> Null, existing |-> << >>,
    scanned |-> {}, todo |-> {}, stats |-> NoStats, result |-> Null,
    pre |-> << >>, quiet |-> TRUE, failed |-> {}, wrote |-> {},
    shown |-> {}, seen |-> {} ]

(***************************************************************************)
(* The store (db/schema.rs).                                               *)
(***************************************************************************)
\* save_book as INSERT OR REPLACE: a conflicting row is replaced whole
save_book_replaces(table, book) ==
  [i \in DOMAIN table \cup {book.id} |->
     IF i = book.id THEN book ELSE table[i]]

\* save_book with the size of a conflicting row added to, not replaced
save_book_adds(table, book) ==
  IF book.id \in DOMAIN table
    THEN [table EXCEPT ![book.id] =
            [@ EXCEPT !.title = book.title, !.path = book.path,
                      !.file_size = @ + book.file_size, !.mtime = book.mtime,
                      !.updated_at = book.updated_at]]
    ELSE (book.id :> book) @@ table

\* INSERT ... ON CONFLICT (id) DO UPDATE SET ...: a conflicting row keeps its
\* id, library_id, format and created_at
save_book(table, book) ==
  IF book.id \in DOMAIN table
    THEN [table EXCEPT ![book.id] =
            [@ EXCEPT !.title = book.title, !.path = book.path,
                      !.file_size = book.file_size, !.mtime = book.mtime,
                      !.updated_at = book.updated_at]]
    ELSE (book.id :> book) @@ table

\* delete_books_not_in without the library in the WHERE clause
delete_books_not_in_any(table, library_id, keep_ids) ==
  IF keep_ids = {}
    THEN [table |-> table, deleted |-> 0]
    ELSE LET gone == {i \in DOMAIN table : i \notin keep_ids}
         IN [ table |-> [i \in (DOMAIN table) \ gone |-> table[i]],
              deleted |-> Cardinality(gone) ]

\* delete_books_not_in: Ok(0) for an empty keep_ids, else DELETE FROM books
\* WHERE library_id = ? AND id NOT IN (keep_ids), the rows deleted counted
delete_books_not_in(table, library_id, keep_ids) ==
  IF keep_ids = {}
    THEN [table |-> table, deleted |-> 0]
    ELSE LET gone == {i \in DOMAIN table : /\ table[i].library_id = library_id
                                           /\ i \notin keep_ids}
         IN [ table |-> [i \in (DOMAIN table) \ gone |-> table[i]],
              deleted |-> Cardinality(gone) ]

\* DELETE FROM books WHERE id = ?1
delete_book(table, id) == [i \in (DOMAIN table) \ {id} |-> table[i]]

\* the rows of the deleted books deleted with them by the caller, whatever
\* the store enforces
cascade_always(rows, ids) == {r \in rows : r.book_id \notin ids}

\* FOREIGN KEY (book_id) REFERENCES books(id) ON DELETE CASCADE, where the
\* build enforces foreign keys: the rows of the deleted books go with them
cascade(rows, ids) ==
  IF foreign_keys THEN {r \in rows : r.book_id \notin ids} ELSE rows

\* the same for a table keyed by id (highlights, bookmarks)
cascade_rows(table, ids) ==
  IF foreign_keys
    THEN [i \in {j \in DOMAIN table : table[j].book_id \notin ids} |->
            table[i]]
    ELSE table

\* save_highlight with the page rewritten on conflict as well
save_highlight_page(table, h) ==
  IF h.id \in DOMAIN table
    THEN [table EXCEPT ![h.id] =
            [@ EXCEPT !.note = h.note, !.color = h.color, !.page = h.page,
                      !.updated_at = h.updated_at]]
    ELSE (h.id :> h) @@ table

\* INSERT INTO highlights ... ON CONFLICT (id) DO UPDATE SET note, color,
\* updated_at
save_highlight(table, h) ==
  IF h.id \in DOMAIN table
    THEN [table EXCEPT ![h.id] =
            [@ EXCEPT !.note = h.note, !.color = h.color,
                      !.updated_at = h.updated_at]]
    ELSE (h.id :> h) @@ table

\* INSERT INTO bookmarks ... ON CONFLICT (id) DO UPDATE SET name
save_bookmark(table, b) ==
  IF b.id \in DOMAIN table
    THEN [table EXCEPT ![b.id] = [@ EXCEPT !.name = b.name]]
    ELSE (b.id :> b) @@ table

\* the conflict taken over user and book alone
progress_conflicts_book(table, p) ==
  {r \in table : r.user_id = p.user_id /\ r.book_id = p.book_id}

\* the rows UNIQUE (user_id, book_id, device_id) makes an insert conflict
\* with: SQLite holds NULLs distinct from each other in a UNIQUE constraint,
\* so a row without device_id conflicts with none
progress_conflicts(table, p) ==
  {r \in table : /\ r.user_id = p.user_id
                 /\ r.book_id = p.book_id
                 /\ r.device_id # Null
                 /\ p.device_id # Null
                 /\ r.device_id = p.device_id}

\* INSERT INTO reading_progress ... ON CONFLICT (user_id, book_id, device_id)
\* DO UPDATE SET ..., started_at = COALESCE(reading_progress.started_at,
\* excluded.started_at), ...; id is the rowid an insert gets
save_progress(table, p, id) ==
  LET hit == progress_conflicts(table, p)
  IN IF hit = {}
       THEN table \cup {[p EXCEPT !.id = id]}
       ELSE (table \ hit) \cup
            {[r EXCEPT !.current_page = p.current_page,
                       !.percentage = p.percentage,
                       !.status = p.status,
                       !.started_at = IF r.started_at # None
                                        THEN r.started_at ELSE p.started_at,
                       !.finished_at = p.finished_at,
                       !.updated_at = p.updated_at] : r \in hit}

\* SELECT ... WHERE user_id = ?1 AND book_id = ?2
\* ORDER BY updated_at DESC, id DESC LIMIT 1
get_progress(table, user_id, book_id) ==
  LET rows == {r \in table : r.user_id = user_id /\ r.book_id = book_id}
  IN IF rows = {} THEN None
     ELSE Some(CHOOSE r \in rows :
                 \A q \in rows :
                   \/ q.updated_at < r.updated_at
                   \/ q.updated_at = r.updated_at /\ q.id <= r.id)

\* save_sdr with percent_finished left out of the DO UPDATE SET list
save_sdr_stale(table, sdr) ==
  LET hit == {r \in table : r.user_id = sdr.user_id /\ r.book_id = sdr.book_id}
  IN IF hit = {}
       THEN table \cup {sdr}
       ELSE (table \ hit) \cup
            {[r EXCEPT !.data = sdr.data, !.last_page = sdr.last_page,
                       !.updated_at = sdr.updated_at] : r \in hit}

\* INSERT INTO sdr_backups ... ON CONFLICT (user_id, book_id) DO UPDATE SET
\* data, last_page, percent_finished, updated_at
save_sdr(table, sdr) ==
  LET hit == {r \in table : r.user_id = sdr.user_id /\ r.book_id = sdr.book_id}
  IN IF hit = {}
       THEN table \cup {sdr}
       ELSE (table \ hit) \cup
            {[r EXCEPT !.data = sdr.data, !.last_page = sdr.last_page,
                       !.percent_finished = sdr.percent_finished,
                       !.updated_at = sdr.updated_at] : r \in hit}

\* SELECT user_id, book_id, data, last_page, percent_finished, updated_at
\* FROM sdr_backups WHERE user_id = ?1 AND book_id = ?2 (query_row: one row)
get_sdr(table, user_id, book_id) ==
  LET rows == {r \in table : r.user_id = user_id /\ r.book_id = book_id}
  IN IF rows = {} THEN None ELSE Some(CHOOSE r \in rows : TRUE)

\* the SdrInfo of a row: the columns without user_id and the blob
SdrInfoOf(r) ==
  [ book_id |-> r.book_id, last_page |-> r.last_page,
    percent_finished |-> r.percent_finished, updated_at |-> r.updated_at ]

\* SELECT book_id, last_page, percent_finished, updated_at ... (one row)
get_sdr_info(table, user_id, book_id) ==
  LET row == get_sdr(table, user_id, book_id)
  IN IF row = None THEN None ELSE Some(SdrInfoOf(row[1]))

\* SELECT book_id, last_page, percent_finished, updated_at
\* FROM sdr_backups WHERE user_id = ?1, one SdrInfo per row (a bag)
get_user_sdr_list(table, user_id) ==
  LET rows == {r \in table : r.user_id = user_id}
      infos == {SdrInfoOf(r) : r \in rows}
  IN [i \in infos |-> Cardinality({r \in rows : SdrInfoOf(r) = i})]

\* SELECT ... FROM books WHERE library_id = ?1, keyed by id as the scanner
\* collects it into existing_map
get_library_books(table, library_id) ==
  [i \in {j \in DOMAIN table : table[j].library_id = library_id} |-> table[i]]

(***************************************************************************)
(* Conversions between Book and StoredBook (server/state.rs).              *)
(***************************************************************************)
\* chrono::DateTime::from_timestamp(ts, 0).unwrap_or_else(Utc::now), read
\* back with timestamp(): every mtime of Mtimes is in chrono's range
from_timestamp(ts, clock) == IF ts \in Mtimes THEN ts ELSE clock

\* book_to_stored with an id that is new at every second
book_to_stored_timed(book, library_id, clock) ==
  [ id |-> << "uuid5", book.path, clock >>, library_id |-> library_id,
    title |-> book.title, path |-> book.path,
    format |-> DebugLower(book.format), file_size |-> book.file_size,
    mtime |-> book.modified, created_at |-> clock, updated_at |-> clock ]

book_to_stored(book, library_id, clock) ==
  [ id |-> book.id, library_id |-> library_id, title |-> book.title,
    path |-> book.path, format |-> DebugLower(book.format),
    file_size |-> book.file_size, mtime |-> book.modified,
    created_at |-> clock, updated_at |-> clock ]

\* stored_to_book with modified taken from the clock, as Book::new does
stored_to_book_now(sb, clock) ==
  [ id |-> sb.id, title |-> sb.title, path |-> sb.path,
    format |-> from_extension(sb.format), file_size |-> sb.file_size,
    modified |-> clock ]

\* Book::new(path, format): the id from the path, the title from the file
\* stem, no size yet, modified now
Book_new(path, format, clock) ==
  [ id |-> new_v5(path), title |-> "stem", path |-> path, format |-> format,
    file_size |-> 0, modified |-> clock ]

stored_to_book(sb, clock) ==
  [ id |-> sb.id, title |-> sb.title, path |-> sb.path,
    format |-> from_extension(sb.format), file_size |-> sb.file_size,
    modified |-> from_timestamp(sb.mtime, clock) ]

\* load_from_db's filter_map: a row whose format does not parse is dropped
LoadBooks(table, clock) ==
  {stored_to_book(table[i], clock) :
     i \in {j \in DOMAIN table : from_extension(table[j].format) # Null}}

(***************************************************************************)
(* The reads of the mirror: each takes the read lock, copies what it needs *)
(* out of the vector and releases the lock.                                *)
(***************************************************************************)
\* self.books.read().clone()
get_all_books(m) == m

\* self.books.read().iter().find(|b| b.id == id).cloned()
get_book(m, id) ==
  IF \E b \in m : b.id = id THEN Some(CHOOSE b \in m : b.id = id) ELSE None

\* sort_by modified, newest first, truncate(limit): the results the order of
\* the books of equal age allows
get_recent(m, limit) ==
  {r \in SUBSET m :
     /\ Cardinality(r) = IF Cardinality(m) < limit THEN Cardinality(m)
                                                   ELSE limit
     /\ \A b \in r : \A c \in m \ r : c.modified <= b.modified}

\* title.to_lowercase().contains(&query), for the titles and queries of the
\* model
Contains(title, query) ==
  \/ query = "e"
  \/ title = "meta" /\ query \in {"me", "meta"}
  \/ title = "stem" /\ query \in {"te", "stem"}
Queries == {"e", "me", "te", "meta", "stem", "x"}
search(m, query) == {b \in m : Contains(b.title, query)}

\* self.books.read().len()
book_count(m) == Cardinality(m)

\* extract_book_metadata with the handler's error propagated by `?`
extract_book_metadata_strict(f, handlerOk, clock) ==
  [ ok |-> handlerOk,
    book |-> [ id |-> new_v5(f.path),
               title |-> IF handlerOk THEN "meta" ELSE "stem",
               path |-> f.path, format |-> from_extension(Extension(f.path)),
               file_size |-> f.size,
               modified |-> from_timestamp(f.mtime, clock) ] ]

\* extract_book_metadata: a handler failure is logged and the book, with the
\* file-stem title, is returned as Ok all the same
extract_book_metadata(f, handlerOk, clock) ==
  [ ok |-> TRUE,
    book |-> [ id |-> new_v5(f.path),
               title |-> IF handlerOk THEN "meta" ELSE "stem",
               path |-> f.path, format |-> from_extension(Extension(f.path)),
               file_size |-> f.size,
               modified |-> from_timestamp(f.mtime, clock) ] ]

(***************************************************************************)
(* The directory walk of scan_directory_incremental.                       *)
(***************************************************************************)
\* WalkDir entries that are Ok, are files, have a recognized extension and
\* whose metadata can be read
WalkFiles(root) ==
  {p \in Under(root) : /\ files[p] # NoFile
                       /\ p \notin unreadable
                       /\ from_extension(Extension(p)) # Null}

\* the comparison with the size left out
IsUnchanged_mtime(existing, p) ==
  /\ new_v5(p) \in DOMAIN existing
  /\ existing[new_v5(p)].mtime = files[p].mtime

\* the (size, mtime) comparison that classifies a file as unchanged
IsUnchanged(existing, p) ==
  /\ new_v5(p) \in DOMAIN existing
  /\ existing[new_v5(p)].mtime = files[p].mtime
  /\ existing[new_v5(p)].file_size = files[p].size

\* RemovedIds with the negation of the filter lost
RemovedIds_kept(existing, scanned) == {i \in DOMAIN existing : i \in scanned}

\* the stored ids of the library that the walk did not see
RemovedIds(existing, scanned) == {i \in DOMAIN existing : i \notin scanned}

\* the flag set with store(true) instead of swap(true): nothing is read back
swap_scanning_store(flag) == FALSE

\* self.scanning.swap(true, SeqCst): the value the flag had
swap_scanning(flag) == flag

(***************************************************************************)
(* Initial states: a fresh store, any set of files on disk, the process    *)
(* just constructed (AppState::new_with_db).                               *)
(***************************************************************************)
InitWith(threads, b, fk) ==
  /\ dirs = Dirs
  /\ \E present \in SUBSET Paths :
       files = [p \in Paths |-> IF p \in present
                                   THEN [size |-> 1, mtime |-> 1] ELSE NoFile]
  /\ unreadable = {}
  /\ now = 0
  /\ books = << >>
  /\ mirror = {}
  /\ loaded = FALSE
  /\ scanning = FALSE
  /\ scan = [t \in threads |-> IdleScan]
  /\ started = FALSE
  /\ dropped = 0
  /\ budget = b
  /\ foreign_keys \in fk
  /\ reading_progress = {}
  /\ progress_seq = 0
  /\ sdr_backups = {}
  /\ hist = [progress |-> << >>, sdr |-> << >>, recent |-> << >>]
  /\ highlights = << >>
  /\ bookmarks = << >>
  /\ call = NoCall
  /\ InitOther

\* one thread calls scan_all_libraries, the filesystem changes under it; no
\* device talks to the sync API, so that the tables of reading state stay
\* empty and the enforcement of foreign keys makes no difference
Init ==
  InitWith({"t1"}, [fs |-> MaxFsOps, calls |-> MaxCalls, errors |-> 0,
                    failures |-> 0, sync |-> 0, horizon |-> MaxNow], {TRUE})

(***************************************************************************)
(* main: load_from_db at startup, before the first scan is started.        *)
(***************************************************************************)
Startup ==
  /\ ~started
  /\ started' = TRUE
  /\ IF loaded
       THEN UNCHANGED << mirror, loaded >>
       ELSE /\ mirror' = LoadBooks(books, now)
            /\ loaded' = TRUE
  /\ UNCHANGED syncVars
  /\ UNCHANGED << fsVars, now, books, scanning, scan, dropped, budget >>

(***************************************************************************)
(* scan_all_libraries, step by step.  The fields pre, quiet, failed and    *)
(* wrote of a scan record what the scan did; the code does not read them.  *)
(***************************************************************************)
\* the swap found the flag clear: this call runs the scan
ScanBegin(t) ==
  /\ started
  /\ scan[t].pc = "idle"
  /\ budget.calls > 0
  /\ ~swap_scanning(scanning)
  /\ scanning' = TRUE
  /\ budget' = [budget EXCEPT !.calls = @ - 1]
  /\ scan' = [scan EXCEPT ![t] =
       [IdleScan EXCEPT !.pc = "list", !.pre = books, !.shown = mirror]]
  /\ UNCHANGED syncVars
  /\ UNCHANGED << fsVars, now, books, mirror, loaded, started, dropped >>

\* the swap found the flag set: the call returns Ok at once
ScanSkip(t) ==
  /\ started
  /\ scan[t].pc = "idle"
  /\ budget.calls > 0
  /\ swap_scanning(scanning)
  /\ scanning' = TRUE
  /\ budget' = [budget EXCEPT !.calls = @ - 1]
  /\ dropped' = dropped + 1
  /\ UNCHANGED syncVars
  /\ UNCHANGED << fsVars, now, books, mirror, loaded, scan, started >>

\* ScanList with the mirror cleared before the scan refills it
ScanList_clears(t) ==
  /\ scan[t].pc = "list"
  /\ scan' = [scan EXCEPT ![t].pc = "lib", ![t].libs = list_libraries]
  /\ mirror' = {}
  /\ UNCHANGED syncVars
  /\ UNCHANGED << fsVars, now, books, loaded, scanning, started, dropped,
                  budget >>

\* let libraries = self.db.list_libraries()?
ScanList(t) ==
  /\ scan[t].pc = "list"
  /\ scan' = [scan EXCEPT ![t].pc = "lib", ![t].libs = list_libraries]
  /\ UNCHANGED syncVars
  /\ UNCHANGED << fsVars, now, books, mirror, loaded, scanning, started,
                  dropped, budget >>

\* ScanStoreError with the mirror emptied when the scan gives up
ScanStoreError_empties(t) ==
  /\ budget.errors > 0
  /\ \/ scan[t].pc = "list"
     \/ /\ scan[t].pc = "lib"
        /\ scan[t].libs # << >> => Head(scan[t].libs).path \in dirs
  /\ budget' = [budget EXCEPT !.errors = @ - 1]
  /\ loaded' = FALSE
  /\ mirror' = {}
  /\ scan' = [scan EXCEPT ![t].pc = "release", ![t].result = "err"]
  /\ UNCHANGED syncVars
  /\ UNCHANGED << fsVars, now, books, scanning, started, dropped >>

\* a store operation followed by `?` fails: list_libraries, get_library_books
\* or the get_all_books of load_from_db.  The scan returns the error; the
\* reload, when reached, has already cleared `loaded`
ScanStoreError(t) ==
  /\ budget.errors > 0
  /\ \/ scan[t].pc = "list"
     \/ /\ scan[t].pc = "lib"
        /\ scan[t].libs # << >> => Head(scan[t].libs).path \in dirs
  /\ budget' = [budget EXCEPT !.errors = @ - 1]
  /\ loaded' = IF scan[t].pc = "lib" /\ scan[t].libs = << >> THEN FALSE
                                                               ELSE loaded
  /\ scan' = [scan EXCEPT ![t].pc = "release", ![t].result = "err"]
  /\ UNCHANGED syncVars
  /\ UNCHANGED << fsVars, now, books, mirror, scanning, started, dropped >>

\* what a scan notes of a library when its loop reaches it: whether the root
\* was missing, and then the rows the store held for the library
Seen(library) ==
  [ id |-> library.id, missing |-> library.path \notin dirs,
    rows |-> IF library.path \notin dirs
               THEN get_library_books(books, library.id) ELSE << >> ]

\* the loop without the path.exists() check: the walk of a root that does not
\* exist finds no file
ScanLibrary_walks(t) ==
  /\ scan[t].pc = "lib"
  /\ scan[t].libs # << >>
  /\ LET library == Head(scan[t].libs)
         existing == get_library_books(books, library.id)
         found == WalkFiles(library.path)
         same == {p \in found : IsUnchanged(existing, p)}
     IN scan' = [scan EXCEPT
                 ![t].pc = "process",
                 ![t].lib = library.id,
                 ![t].existing = existing,
                 ![t].scanned = {new_v5(p) : p \in found},
                 ![t].todo = {[path |-> p, size |-> files[p].size,
                               mtime |-> files[p].mtime] : p \in found \ same},
                 ![t].stats[library.id].unchanged = Cardinality(same),
                 ![t].seen = @ \cup {Seen(library)}]
  /\ UNCHANGED syncVars
  /\ UNCHANGED << fsVars, now, books, mirror, loaded, scanning, started,
                  dropped, budget >>

\* the head of the `for library in libraries` loop: a library whose root does
\* not exist is skipped; otherwise its stored books are read, its directory
\* is walked and every file found is classified
ScanLibrary(t) ==
  /\ scan[t].pc = "lib"
  /\ scan[t].libs # << >>
  /\ LET library == Head(scan[t].libs)
         existing == get_library_books(books, library.id)
         found == WalkFiles(library.path)
         same == {p \in found : IsUnchanged(existing, p)}
     IN IF library.path \notin dirs
          THEN scan' = [scan EXCEPT ![t].libs = Tail(@),
                                    ![t].seen = @ \cup {Seen(library)}]
          ELSE scan' = [scan EXCEPT
                 ![t].pc = "process",
                 ![t].lib = library.id,
                 ![t].existing = existing,
                 ![t].scanned = {new_v5(p) : p \in found},
                 ![t].todo = {[path |-> p, size |-> files[p].size,
                               mtime |-> files[p].mtime] : p \in found \ same},
                 ![t].stats[library.id].unchanged = Cardinality(same),
                 ![t].seen = @ \cup {Seen(library)}]
  /\ UNCHANGED syncVars
  /\ UNCHANGED << fsVars, now, books, mirror, loaded, scanning, started,
                  dropped, budget >>

\* db::now_timestamp(): the wall clock has moved on, or not, since it was
\* last read
ClockReadings == {n \in now .. now + 1 : n <= budget.horizon}

\* one run of the worker closure: count the file as new or updated, extract
\* its metadata and save the book
ProcessFile(t) ==
  /\ scan[t].pc = "process"
  /\ \E f \in scan[t].todo, handlerOk \in BOOLEAN, clock \in ClockReadings :
       LET id == new_v5(f.path)
           is_new == id \notin DOMAIN scan[t].existing
           r == extract_book_metadata(f, handlerOk, clock)
       IN /\ ~handlerOk => budget.failures > 0
          /\ budget' = IF handlerOk THEN budget
                                    ELSE [budget EXCEPT !.failures = @ - 1]
          /\ now' = clock
          /\ books' = IF r.ok
                        THEN save_book(books,
                                book_to_stored(r.book, scan[t].lib, clock))
                        ELSE books
          /\ scan' = [scan EXCEPT
               ![t].todo = @ \ {f},
               ![t].stats[scan[t].lib].new = IF is_new THEN @ + 1 ELSE @,
               ![t].stats[scan[t].lib].updated = IF is_new THEN @ ELSE @ + 1,
               ![t].failed = IF handlerOk THEN @ ELSE @ \cup {id},
               ![t].wrote = IF r.ok THEN @ \cup {id} ELSE @]
  /\ UNCHANGED syncVars
  /\ UNCHANGED << fsVars, mirror, loaded, scanning, started, dropped >>

RECURSIVE DeleteAll(_, _)
\* for id in existing_map.keys():
\*   if !scanned_ids.contains(id) { let _ = self.db.delete_book(id); }
DeleteAll(table, ids) ==
  IF ids = {} THEN table
  ELSE LET i == CHOOSE j \in ids : TRUE
       IN DeleteAll(delete_book(table, i), ids \ {i})

\* after the batch: the stored books of the library that the walk did not see
\* are deleted one by one, and the loop moves to the next library
ScanPrune(t) ==
  /\ scan[t].pc = "process"
  /\ scan[t].todo = {}
  /\ LET gone == RemovedIds(scan[t].existing, scan[t].scanned)
     IN /\ books' = IF Cardinality(gone) > 0 THEN DeleteAll(books, gone)
                                              ELSE books
        /\ reading_progress' = cascade(reading_progress, gone)
        /\ sdr_backups' = cascade(sdr_backups, gone)
        /\ highlights' = cascade_rows(highlights, gone)
        /\ bookmarks' = cascade_rows(bookmarks, gone)
        /\ scan' = [scan EXCEPT
             ![t].pc = "lib",
             ![t].libs = Tail(@),
             ![t].stats[scan[t].lib].removed = Cardinality(gone)]
  /\ UNCHANGED otherVars
  /\ UNCHANGED << foreign_keys, progress_seq, hist, call, fsVars, now,
                  mirror, loaded, scanning, started, dropped, budget >>

\* after the loop: loaded.store(false); load_from_db()
ScanReload(t) ==
  /\ scan[t].pc = "lib"
  /\ scan[t].libs = << >>
  /\ mirror' = LoadBooks(books, now)
  /\ loaded' = TRUE
  /\ scan' = [scan EXCEPT ![t].pc = "release", ![t].result = "ok"]
  /\ UNCHANGED syncVars
  /\ UNCHANGED << fsVars, now, books, scanning, started, dropped, budget >>

\* self.scanning.store(false, SeqCst); result
ScanRelease(t) ==
  /\ scan[t].pc = "release"
  /\ scanning' = FALSE
  /\ scan' = [scan EXCEPT ![t] = IdleScan]
  /\ UNCHANGED syncVars
  /\ UNCHANGED << fsVars, now, books, mirror, loaded, started, dropped,
                  budget >>

(***************************************************************************)
(* The environment: the filesystem.                                        *)
(***************************************************************************)
\* every filesystem change ends the quiet of the scans in flight
FsChange ==
  /\ budget.fs > 0
  /\ budget' = [budget EXCEPT !.fs = @ - 1]
  /\ scan' = [t \in DOMAIN scan |-> [scan[t] EXCEPT !.quiet = FALSE]]
  /\ UNCHANGED syncVars
  /\ UNCHANGED << now, books, mirror, loaded, scanning, started, dropped >>

CreateFile(p) ==
  /\ files[p] = NoFile
  /\ Parent(p) \in dirs
  /\ files' = [files EXCEPT ![p] = [size |-> 1, mtime |-> 1]]
  /\ UNCHANGED << dirs, unreadable >>
  /\ FsChange

\* a write changes the size, the mtime or both
ModifyFile(p) ==
  /\ files[p] # NoFile
  /\ \E s \in Sizes, m \in Mtimes :
       /\ [size |-> s, mtime |-> m] # files[p]
       /\ files' = [files EXCEPT ![p] = [size |-> s, mtime |-> m]]
  /\ UNCHANGED << dirs, unreadable >>
  /\ FsChange

DeleteFile(p) ==
  /\ files[p] # NoFile
  /\ files' = [files EXCEPT ![p] = NoFile]
  /\ unreadable' = unreadable \ {p}
  /\ UNCHANGED dirs
  /\ FsChange

\* permissions change, or the storage starts failing: walking to the file or
\* reading its metadata now gives an error
MakeUnreadable(p) ==
  /\ files[p] # NoFile
  /\ p \notin unreadable
  /\ unreadable' = unreadable \cup {p}
  /\ UNCHANGED << dirs, files >>
  /\ FsChange

\* rm -r d
RemoveDir(d) ==
  /\ d \in dirs
  /\ dirs' = dirs \ Within(d)
  /\ files' = [p \in Paths |-> IF p \in Under(d) THEN NoFile ELSE files[p]]
  /\ unreadable' = unreadable \ Under(d)
  /\ FsChange

FsStep ==
  \/ \E p \in Paths : CreateFile(p)
  \/ \E p \in Paths : ModifyFile(p)
  \/ \E p \in Paths : DeleteFile(p)
  \/ \E p \in Paths : MakeUnreadable(p)
  \/ \E d \in Dirs : RemoveDir(d)

\* the steps of a scan that has begun
ScanStep(t) ==
  \/ ScanList(t)
  \/ ScanLibrary(t)
  \/ ProcessFile(t)
  \/ ScanPrune(t)
  \/ ScanReload(t)
  \/ ScanRelease(t)

Next ==
  \/ Startup
  \/ \E t \in DOMAIN scan : ScanBegin(t)
  \/ \E t \in DOMAIN scan : ScanStep(t)
  \/ FsStep

Spec == Init /\ [][Next]_vars

(***************************************************************************)
(* One thread scans while the filesystem changes, as in Spec, within one   *)
(* second of the clock: what a reader of the mirror sees does not depend   *)
(* on the time.                                                            *)
(***************************************************************************)
InitReads ==
  InitWith({"t1"}, [fs |-> MaxFsOps, calls |-> MaxCalls, errors |-> 0,
                    failures |-> 0, sync |-> 0, horizon |-> 0], {TRUE})

SpecReads == InitReads /\ [][Next]_vars

(***************************************************************************)
(* The server process is stopped, at any point, and started again on the   *)
(* same database and the same library directories.                         *)
(***************************************************************************)
\* a new process: AppState::new_with_db, no thread in a scan; the store and
\* the files are what the old process left
Restart ==
  /\ budget.sync > 0
  /\ budget' = [budget EXCEPT !.sync = @ - 1]
  /\ mirror' = {}
  /\ loaded' = FALSE
  /\ scanning' = FALSE
  /\ scan' = [t \in DOMAIN scan |-> IdleScan]
  /\ started' = FALSE
  /\ call' = [op |-> "restart", before |-> books]
  /\ UNCHANGED otherVars
  /\ UNCHANGED << foreign_keys, progressVars, noteVars >>
  /\ UNCHANGED << fsVars, now, books, dropped >>

InitRestart ==
  InitWith({"t1"}, [fs |-> MaxFsOps, calls |-> MaxCalls, errors |-> 0,
                    failures |-> 0, sync |-> MaxRestarts, horizon |-> 0],
           {TRUE})

NextRestart ==
  \/ Startup
  \/ \E t \in DOMAIN scan : ScanBegin(t)
  \/ \E t \in DOMAIN scan : ScanStep(t)
  \/ FsStep
  \/ Restart

SpecRestart == InitRestart /\ [][NextRestart]_vars

(***************************************************************************)
(* Two threads call scan_all_libraries at any time (the background scan    *)
(* thread, the rescan timer, POST /api/scan); the filesystem is still.     *)
(***************************************************************************)
InitConc ==
  InitWith(Threads, [fs |-> 0, calls |-> MaxConcCalls, errors |-> 0,
                     failures |-> 0, sync |-> 0, horizon |-> 0], {TRUE})

NextConc ==
  \/ Startup
  \/ \E t \in DOMAIN scan : ScanBegin(t)
  \/ \E t \in DOMAIN scan : ScanSkip(t)
  \/ \E t \in DOMAIN scan : ScanStep(t)

SpecConc == InitConc /\ [][NextConc]_vars

(***************************************************************************)
(* One thread scans, files are rewritten on disk; extract_metadata and the *)
(* store may fail.                                                         *)
(***************************************************************************)
InitFail ==
  InitWith({"t1"}, [fs |-> MaxFsOps, calls |-> MaxCalls,
                    errors |-> MaxStoreErrors,
                    failures |-> MaxExtractFailures, sync |-> 0,
                    horizon |-> 0], {TRUE})

NextFail ==
  \/ Startup
  \/ \E t \in DOMAIN scan : ScanBegin(t)
  \/ \E t \in DOMAIN scan : ScanStep(t)
  \/ \E t \in DOMAIN scan : ScanStoreError(t)
  \/ \E p \in Paths : ModifyFile(p)

SpecFail == InitFail /\ [][NextFail]_vars

(***************************************************************************)
(* The sync API (server/handlers.rs): the requests of reading devices.     *)
(* The user of a request is the one its session authenticates.             *)
(***************************************************************************)
Devices == {"kobo", Null}
SyncBooks == {new_v5("top/a.pdf"), new_v5("top/b.epub")}

\* the bodies of POST /progress/{book_id}, device_id apart
ProgressRequests ==
  { [current_page |-> 10, percentage |-> 25, status |-> "reading"],
    [current_page |-> 40, percentage |-> 99, status |-> "finished"] }

\* the archives a device uploads: two with a metadata.*.lua, one without,
\* one that is no tar.gz
SdrBodies == {"tgz1", "tgz2", "tgz0", "junk"}

\* extract_sdr_metadata: (last_page, percent_finished) of the archive's
\* metadata.*.lua, (None, None) without one, an error for a broken archive
extract_sdr_metadata(body) ==
  CASE body = "tgz1" ->
         [ok |-> TRUE, last_page |-> Some(10), percent_finished |-> Some(15)]
    [] body = "tgz2" ->
         [ok |-> TRUE, last_page |-> Some(50), percent_finished |-> Some(80)]
    [] body = "tgz0" ->
         [ok |-> TRUE, last_page |-> None, percent_finished |-> None]
    [] OTHER -> [ok |-> FALSE, last_page |-> None, percent_finished |-> None]

\* the insert or update passes the FOREIGN KEY (book_id) REFERENCES books(id)
ReferenceHolds(book_id) == ~foreign_keys \/ book_id \in DOMAIN books

\* history: the first and the latest successful write of key k
Remember(h, k, w) ==
  IF k \in DOMAIN h THEN [h EXCEPT ![k].last = w]
                    ELSE (k :> [first |-> w, last |-> w]) @@ h

\* sync_update_progress: started_at and updated_at are two readings of the
\* clock, finished_at is None; a store error is the handler's error
SyncUpdateProgress ==
  /\ budget.sync > 0
  /\ \E u \in Users, b \in SyncBooks, d \in Devices, req \in ProgressRequests,
        t1 \in ClockReadings :
       \E t2 \in {n \in t1 .. t1 + 1 : n <= budget.horizon} :
         LET progress ==
               [ id |-> 0, user_id |-> u, book_id |-> b, device_id |-> d,
                 current_page |-> Some(req.current_page),
                 percentage |-> Some(req.percentage), status |-> req.status,
                 started_at |-> Some(t1), finished_at |-> None,
                 updated_at |-> t2 ]
             inserts == progress_conflicts(reading_progress, progress) = {}
         IN /\ now' = t2
            /\ IF ReferenceHolds(b)
                 THEN /\ reading_progress' =
                           save_progress(reading_progress, progress,
                                         progress_seq + 1)
                      /\ progress_seq' =
                           IF inserts THEN progress_seq + 1 ELSE progress_seq
                      /\ hist' = [hist EXCEPT
                           !.progress = Remember(@, << u, b, d >>, progress),
                           !.recent = (<< u, b >> :> progress) @@ @]
                 ELSE UNCHANGED << reading_progress, progress_seq, hist >>
  /\ budget' = [budget EXCEPT !.sync = @ - 1]
  /\ UNCHANGED otherVars
  /\ UNCHANGED << fsVars, books, mirror, loaded, scanning, scan, started,
                  dropped, foreign_keys, sdr_backups, noteVars, call >>

\* sync_upload_sdr: the body is stored whole, with the page and the percentage
\* read out of it
SyncUploadSdr ==
  /\ budget.sync > 0
  /\ \E u \in Users, b \in SyncBooks, body \in SdrBodies, t \in ClockReadings :
       LET meta == extract_sdr_metadata(body)
           sdr == [ user_id |-> u, book_id |-> b, data |-> body,
                    last_page |-> meta.last_page,
                    percent_finished |-> meta.percent_finished,
                    updated_at |-> t ]
       IN /\ IF ~meta.ok
               THEN UNCHANGED << now, sdr_backups, hist >>
               ELSE /\ now' = t
                    /\ IF ReferenceHolds(b)
                         THEN /\ sdr_backups' = save_sdr(sdr_backups, sdr)
                              /\ hist' = [hist EXCEPT !.sdr =
                                            Remember(@, << u, b >>, sdr)]
                         ELSE UNCHANGED << sdr_backups, hist >>
          /\ call' = [ op |-> "sync_upload_sdr",
                       arg |-> [user_id |-> u, book_id |-> b, body |-> body],
                       ok |-> meta.ok /\ ReferenceHolds(b) ]
  /\ budget' = [budget EXCEPT !.sync = @ - 1]
  /\ UNCHANGED otherVars
  /\ UNCHANGED << fsVars, books, mirror, loaded, scanning, scan, started,
                  dropped, foreign_keys, reading_progress, progress_seq,
                  noteVars >>

\* the store and the mirror once the startup scan, at second 0, has indexed
\* top/a.pdf, the only file on disk
IndexedCatalog ==
  LET f == [path |-> "top/a.pdf", size |-> 1, mtime |-> 1]
      stored == book_to_stored(extract_book_metadata(f, TRUE, 0).book, "L1", 0)
      table == save_book(<< >>, stored)
  IN /\ dirs = Dirs
     /\ files = [p \in Paths |-> IF p = f.path
                                   THEN [size |-> f.size, mtime |-> f.mtime]
                                   ELSE NoFile]
     /\ unreadable = {}
     /\ now = 0
     /\ books = table
     /\ mirror = LoadBooks(table, 0)
     /\ loaded = TRUE
     /\ scanning = FALSE
     /\ scan = [t \in {"t1"} |-> IdleScan]
     /\ started = TRUE
     /\ dropped = 0

(***************************************************************************)
(* Devices sync their reading state with a server whose catalog is         *)
(* indexed; the build of SQLite may or may not enforce foreign keys.       *)
(***************************************************************************)
InitSync ==
  /\ IndexedCatalog
  /\ budget = [fs |-> 0, calls |-> 0, errors |-> 0, failures |-> 0,
               sync |-> MaxSyncCalls, horizon |-> MaxNow]
  /\ foreign_keys \in BOOLEAN
  /\ reading_progress = {}
  /\ progress_seq = 0
  /\ sdr_backups = {}
  /\ hist = [progress |-> << >>, sdr |-> << >>, recent |-> << >>]
  /\ highlights = << >>
  /\ bookmarks = << >>
  /\ call = NoCall
  /\ InitOther

NextSync ==
  \/ SyncUpdateProgress
  \/ SyncUploadSdr

SpecSync == InitSync /\ [][NextSync]_vars

(***************************************************************************)
(* The devices of the users report their progress, one PUT after another.  *)
(***************************************************************************)
InitDevices ==
  /\ IndexedCatalog
  /\ budget = [fs |-> 0, calls |-> 0, errors |-> 0, failures |-> 0,
               sync |-> MaxProgressWrites, horizon |-> MaxNow]
  /\ foreign_keys \in BOOLEAN
  /\ reading_progress = {}
  /\ progress_seq = 0
  /\ sdr_backups = {}
  /\ hist = [progress |-> << >>, sdr |-> << >>, recent |-> << >>]
  /\ highlights = << >>
  /\ bookmarks = << >>
  /\ call = NoCall
  /\ InitOther

NextDevices == SyncUpdateProgress

SpecDevices == InitDevices /\ [][NextDevices]_vars

(***************************************************************************)
(* The annotations of the sync API: POST /highlights/{book_id} and         *)
(* POST /bookmarks/{book_id}.                                              *)
(***************************************************************************)
\* the ids a device sends; without one the handler draws a random uuid
NoteIds == {"n1"}

\* Uuid::new_v4: a random id, one no row of the table has
RandomIds == {"r1", "r2", "r3", "r4"}
new_v4(table) == CHOOSE i \in RandomIds : i \notin DOMAIN table

\* the bodies of POST /highlights/{book_id}, the id apart
HighlightRequests ==
  { [ device_id |-> "kobo", page |-> Some(1), chapter |-> "one",
      text |-> "first", note |-> Null, color |-> Null,
      pos0 |-> "p10", pos1 |-> "p11" ],
    [ device_id |-> Null, page |-> Some(2), chapter |-> Null,
      text |-> "second", note |-> "remark", color |-> "red",
      pos0 |-> "p20", pos1 |-> "p21" ] }

\* the bodies of POST /bookmarks/{book_id}, the id apart
BookmarkRequests ==
  { [ page |-> Some(1), position_data |-> "xp1", name |-> Null ],
    [ page |-> Some(2), position_data |-> "xp2", name |-> "mark" ] }

\* the statement passes the foreign key of the row it inserts; a statement
\* that takes the ON CONFLICT branch inserts no row
InsertAllowed(table, row) ==
  row.id \in DOMAIN table \/ ReferenceHolds(row.book_id)

\* sync_add_highlight: the id of the request or a fresh one, yellow without
\* a colour, created_at and updated_at two readings of the clock
SyncAddHighlight ==
  /\ budget.sync > 0
  /\ \E u \in Users, b \in SyncBooks, req \in HighlightRequests,
        i \in NoteIds \cup {new_v4(highlights)}, t1 \in ClockReadings :
       \E t2 \in {n \in t1 .. t1 + 1 : n <= budget.horizon} :
         LET highlight ==
               [ id |-> i, user_id |-> u, book_id |-> b,
                 device_id |-> req.device_id, page |-> req.page,
                 chapter |-> req.chapter, text |-> req.text,
                 note |-> req.note,
                 color |-> IF req.color = Null THEN "yellow" ELSE req.color,
                 pos0 |-> req.pos0, pos1 |-> req.pos1,
                 created_at |-> t1, updated_at |-> t2 ]
             ok == InsertAllowed(highlights, highlight)
         IN /\ now' = t2
            /\ highlights' = IF ok THEN save_highlight(highlights, highlight)
                                   ELSE highlights
            /\ call' = [ op |-> "save_highlight", arg |-> highlight,
                         before |-> highlights, ok |-> ok ]
  /\ budget' = [budget EXCEPT !.sync = @ - 1]
  /\ UNCHANGED otherVars
  /\ UNCHANGED << fsVars, books, mirror, loaded, scanning, scan, started,
                  dropped, foreign_keys, progressVars, bookmarks >>

\* sync_add_bookmark: the id of the request or a fresh one, created_at a
\* reading of the clock
SyncAddBookmark ==
  /\ budget.sync > 0
  /\ \E u \in Users, b \in SyncBooks, req \in BookmarkRequests,
        i \in NoteIds \cup {new_v4(bookmarks)}, t \in ClockReadings :
       LET bookmark ==
             [ id |-> i, user_id |-> u, book_id |-> b, page |-> req.page,
               position_data |-> req.position_data, name |-> req.name,
               created_at |-> t ]
           ok == InsertAllowed(bookmarks, bookmark)
       IN /\ now' = t
          /\ bookmarks' = IF ok THEN save_bookmark(bookmarks, bookmark)
                                ELSE bookmarks
          /\ call' = [ op |-> "save_bookmark", arg |-> bookmark,
                       before |-> bookmarks, ok |-> ok ]
  /\ budget' = [budget EXCEPT !.sync = @ - 1]
  /\ UNCHANGED otherVars
  /\ UNCHANGED << fsVars, books, mirror, loaded, scanning, scan, started,
                  dropped, foreign_keys, progressVars, highlights >>

InitNotes ==
  /\ IndexedCatalog
  /\ budget = [fs |-> 0, calls |-> 0, errors |-> 0, failures |-> 0,
               sync |-> MaxNoteCalls, horizon |-> MaxNow]
  /\ foreign_keys \in BOOLEAN
  /\ reading_progress = {}
  /\ progress_seq = 0
  /\ sdr_backups = {}
  /\ hist = [progress |-> << >>, sdr |-> << >>, recent |-> << >>]
  /\ highlights = << >>
  /\ bookmarks = << >>
  /\ call = NoCall
  /\ InitOther

NextNotes ==
  \/ SyncAddHighlight
  \/ SyncAddBookmark

SpecNotes == InitNotes /\ [][NextNotes]_vars

(***************************************************************************)
(* The batch of a scan thread by thread: the closures of par_iter run on   *)
(* the threads of a pool built for the batch, each extracts the metadata   *)
(* of its file and then calls save_book, which locks the connection for    *)
(* its statement.  Reading devices call the sync API meanwhile.            *)
(***************************************************************************)
\* the logical CPUs of the machine, rayon's default number of threads
Cpus == 2

\* rayon::ThreadPoolBuilder::num_threads(n): n threads, and for n = 0 the
\* default number
num_threads(workers) == IF workers = 0 THEN Cpus ELSE workers

\* the closures in progress whose position is pc
Workers(pc) == {w \in pool.active : w.pc = pc}

\* par_iter handing a file to a second thread while a first one has it
WorkerTake_again(t) ==
  /\ scan[t].pc = "process"
  /\ Cardinality(pool.active) < num_threads(pool.workers)
  /\ \E f \in scan[t].todo :
       LET is_new == new_v5(f.path) \notin DOMAIN scan[t].existing
       IN /\ pool' = [pool EXCEPT
               !.active = @ \cup {[file |-> f, pc |-> "extract"]}]
          /\ scan' = [scan EXCEPT
               ![t].stats[scan[t].lib].new = IF is_new THEN @ + 1 ELSE @,
               ![t].stats[scan[t].lib].updated = IF is_new THEN @ ELSE @ + 1]
  /\ UNCHANGED << foreign_keys, progressVars, noteVars, call, db_lock,
                  authVars, coverVars >>
  /\ UNCHANGED << fsVars, now, books, mirror, loaded, scanning, started,
                  dropped, budget >>

\* a free thread of the pool takes the next file: the closure counts it as
\* new or updated and starts extracting
WorkerTake(t) ==
  /\ scan[t].pc = "process"
  /\ Cardinality(pool.active) < num_threads(pool.workers)
  /\ \E f \in scan[t].todo :
       LET is_new == new_v5(f.path) \notin DOMAIN scan[t].existing
       IN /\ f \notin {w.file : w \in pool.active}
          /\ pool' = [pool EXCEPT
               !.active = @ \cup {[file |-> f, pc |-> "extract"]}]
          /\ scan' = [scan EXCEPT
               ![t].stats[scan[t].lib].new = IF is_new THEN @ + 1 ELSE @,
               ![t].stats[scan[t].lib].updated = IF is_new THEN @ ELSE @ + 1]
  /\ UNCHANGED << foreign_keys, progressVars, noteVars, call, db_lock,
                  authVars, coverVars >>
  /\ UNCHANGED << fsVars, now, books, mirror, loaded, scanning, started,
                  dropped, budget >>

\* save_book with the connection locked from the start of the closure
WorkerExtracted_locked(w) ==
  /\ w \in Workers("extract")
  /\ db_lock = Null
  /\ db_lock' = w.file.path
  /\ pool' = pool
  /\ UNCHANGED << foreign_keys, progressVars, noteVars, call, authVars,
                  coverVars >>
  /\ UNCHANGED << fsVars, now, books, mirror, loaded, scanning, scan, started,
                  dropped, budget >>

\* extract_book_metadata has returned; the closure goes on to save_book
WorkerExtracted(w) ==
  /\ w \in Workers("extract")
  /\ pool' = [pool EXCEPT
       !.active = (@ \ {w}) \cup {[w EXCEPT !.pc = "lock"]}]
  /\ UNCHANGED << foreign_keys, progressVars, noteVars, call, db_lock,
                  authVars, coverVars >>
  /\ UNCHANGED << fsVars, now, books, mirror, loaded, scanning, scan, started,
                  dropped, budget >>

\* save_book: self.conn.lock() returns once the mutex is free
WorkerLock(w) ==
  /\ w \in Workers("lock")
  /\ db_lock = Null
  /\ db_lock' = w.file.path
  /\ pool' = [pool EXCEPT
       !.active = (@ \ {w}) \cup {[w EXCEPT !.pc = "save"]}]
  /\ UNCHANGED << foreign_keys, progressVars, noteVars, call, authVars,
                  coverVars >>
  /\ UNCHANGED << fsVars, now, books, mirror, loaded, scanning, scan, started,
                  dropped, budget >>

\* save_book: the statement runs, the guard is dropped, the closure ends
WorkerSave(t, w) ==
  /\ scan[t].pc = "process"
  /\ w \in Workers("save")
  /\ db_lock = w.file.path
  /\ \E clock \in ClockReadings :
       LET r == extract_book_metadata(w.file, TRUE, clock)
       IN /\ now' = clock
          /\ books' = save_book(books,
                                book_to_stored(r.book, scan[t].lib, clock))
          /\ scan' = [scan EXCEPT ![t].todo = @ \ {w.file},
                                  ![t].wrote = @ \cup {r.book.id}]
  /\ db_lock' = Null
  /\ pool' = [pool EXCEPT !.active = @ \ {w}]
  /\ UNCHANGED << foreign_keys, progressVars, noteVars, call, authVars,
                  coverVars >>
  /\ UNCHANGED << fsVars, mirror, loaded, scanning, started, dropped, budget >>

\* a request of a reading device that arrives while a batch is in progress:
\* its store call takes the mutex for its statement, so it runs when the
\* mutex is free
Reconcile ==
  /\ pool.active # {}
  /\ db_lock = Null
  /\ \/ SyncUpdateProgress
     \/ SyncUploadSdr
     \/ SyncAddHighlight
     \/ SyncAddBookmark

InitPool ==
  /\ dirs = Dirs
  /\ \E present \in SUBSET Paths :
       files = [p \in Paths |-> IF p \in present
                                   THEN [size |-> 1, mtime |-> 1] ELSE NoFile]
  /\ unreadable = {}
  /\ now = 0
  /\ books = << >>
  /\ mirror = {}
  /\ loaded = FALSE
  /\ scanning = FALSE
  /\ scan = [t \in {"t1"} |-> IdleScan]
  /\ started = FALSE
  /\ dropped = 0
  /\ budget = [fs |-> 0, calls |-> MaxPoolScans, errors |-> 0,
               failures |-> 0, sync |-> MaxPoolSyncs, horizon |-> 0]
  /\ foreign_keys = TRUE
  /\ reading_progress = {}
  /\ progress_seq = 0
  /\ sdr_backups = {}
  /\ hist = [progress |-> << >>, sdr |-> << >>, recent |-> << >>]
  /\ highlights = << >>
  /\ bookmarks = << >>
  /\ call = NoCall
  /\ \E workers \in 0 .. MaxWorkers :
       pool = [workers |-> workers, active |-> {}]
  /\ db_lock = Null
  /\ InitTables
  /\ InitCovers

NextPool ==
  \/ Startup
  \/ \E t \in DOMAIN scan : ScanBegin(t)
  \/ \E t \in DOMAIN scan : ScanList(t)
  \/ \E t \in DOMAIN scan : ScanLibrary(t)
  \/ \E t \in DOMAIN scan : WorkerTake(t)
  \/ \E w \in pool.active : WorkerExtracted(w)
  \/ \E w \in pool.active : WorkerLock(w)
  \/ \E t \in DOMAIN scan : \E w \in pool.active : WorkerSave(t, w)
  \/ \E t \in DOMAIN scan : ScanPrune(t)
  \/ \E t \in DOMAIN scan : ScanReload(t)
  \/ \E t \in DOMAIN scan : ScanRelease(t)
  \/ Reconcile

SpecPool == InitPool /\ [][NextPool]_vars

(***************************************************************************)
(* Scans of a catalog whose book has reading state: a user has reported    *)
(* progress, uploaded an SDR backup, added a highlight and a bookmark for  *)
(* top/a.pdf; then the files change and the scans run.                     *)
(***************************************************************************)
InitPrune ==
  LET b == new_v5("top/a.pdf")
      progress ==
        [ id |-> 0, user_id |-> "u1", book_id |-> b, device_id |-> "kobo",
          current_page |-> Some(10), percentage |-> Some(25),
          status |-> "reading", started_at |-> Some(0),
          finished_at |-> None, updated_at |-> 0 ]
      sdr == [ user_id |-> "u1", book_id |-> b, data |-> "tgz1",
               last_page |-> Some(10), percent_finished |-> Some(15),
               updated_at |-> 0 ]
      highlight ==
        [ id |-> "n1", user_id |-> "u1", book_id |-> b, device_id |-> "kobo",
          page |-> Some(1), chapter |-> "one", text |-> "first",
          note |-> Null, color |-> "yellow", pos0 |-> "p10", pos1 |-> "p11",
          created_at |-> 0, updated_at |-> 0 ]
      bookmark ==
        [ id |-> "n1", user_id |-> "u1", book_id |-> b, page |-> Some(1),
          position_data |-> "xp1", name |-> Null, created_at |-> 0 ]
  IN /\ IndexedCatalog
     /\ budget = [fs |-> MaxFsOps, calls |-> MaxCalls, errors |-> 0,
                  failures |-> 0, sync |-> 0, horizon |-> 0]
     /\ foreign_keys \in BOOLEAN
     /\ reading_progress = save_progress({}, progress, 1)
     /\ progress_seq = 1
     /\ sdr_backups = save_sdr({}, sdr)
     /\ hist = [progress |-> Remember(<< >>, << "u1", b, "kobo" >>, progress),
                sdr |-> Remember(<< >>, << "u1", b >>, sdr),
                recent |-> (<< "u1", b >> :> progress)]
     /\ highlights = save_highlight(<< >>, highlight)
     /\ bookmarks = save_bookmark(<< >>, bookmark)
     /\ call = NoCall
     /\ InitOther

NextPrune ==
  \/ \E t \in DOMAIN scan : ScanBegin(t)
  \/ \E t \in DOMAIN scan : ScanStep(t)
  \/ FsStep

SpecPrune == InitPrune /\ [][NextPrune]_vars

(***************************************************************************)
(* The book operations of the store called one after another on a catalog  *)
(* that earlier runs of the server have filled.                            *)
(***************************************************************************)
\* the row a scan at second 0 stores for the file at p, of size 1 and mtime 1
IndexedRow(p, l) ==
  book_to_stored(
    extract_book_metadata([path |-> p, size |-> 1, mtime |-> 1], TRUE, 0).book,
    l, 0)

\* the catalogs: any of the files indexed, each under either library
Catalogs ==
  UNION { [ {new_v5(p) : p \in present} -> LibIds ] : present \in SUBSET Paths }

\* save_book(&stored): a row as book_to_stored builds it
DbSaveBook ==
  /\ budget.sync > 0
  /\ \E p \in Paths, l \in LibIds, size \in Sizes, t \in ClockReadings :
       LET f == [path |-> p, size |-> size, mtime |-> 1]
           stored == book_to_stored(extract_book_metadata(f, TRUE, t).book,
                                    l, t)
       IN /\ now' = t
          /\ books' = save_book(books, stored)
          /\ call' = [ op |-> "save_book", arg |-> stored, before |-> books,
                       again |-> call.op = "save_book" /\ call.arg = stored ]
  /\ budget' = [budget EXCEPT !.sync = @ - 1]
  /\ UNCHANGED otherVars
  /\ UNCHANGED << fsVars, mirror, loaded, scanning, scan, started, dropped,
                  foreign_keys, progressVars, noteVars >>

\* delete_books_not_in(library_id, keep_ids); the rows that refer to a deleted
\* book go with it where foreign keys are enforced
DbDeleteBooksNotIn ==
  /\ budget.sync > 0
  /\ \E l \in LibIds, keep_ids \in SUBSET BookIds :
       LET r == delete_books_not_in(books, l, keep_ids)
           gone == (DOMAIN books) \ DOMAIN r.table
       IN /\ books' = r.table
          /\ reading_progress' = cascade(reading_progress, gone)
          /\ sdr_backups' = cascade(sdr_backups, gone)
          /\ highlights' = cascade_rows(highlights, gone)
          /\ bookmarks' = cascade_rows(bookmarks, gone)
          /\ call' = [ op |-> "delete_books_not_in",
                       arg |-> [library_id |-> l, keep_ids |-> keep_ids],
                       before |-> books, result |-> r.deleted ]
  /\ budget' = [budget EXCEPT !.sync = @ - 1]
  /\ UNCHANGED otherVars
  /\ UNCHANGED << fsVars, now, mirror, loaded, scanning, scan, started,
                  dropped, foreign_keys, progress_seq, hist >>

InitStore ==
  /\ dirs = Dirs
  /\ \E c \in Catalogs :
       /\ books = [i \in DOMAIN c |-> IndexedRow(PathOf(i), c[i])]
       /\ files = [p \in Paths |-> IF new_v5(p) \in DOMAIN c
                                     THEN [size |-> 1, mtime |-> 1]
                                     ELSE NoFile]
  /\ unreadable = {}
  /\ now = 0
  /\ mirror = LoadBooks(books, 0)
  /\ loaded = TRUE
  /\ scanning = FALSE
  /\ scan = [t \in {"t1"} |-> IdleScan]
  /\ started = TRUE
  /\ dropped = 0
  /\ budget = [fs |-> 0, calls |-> 0, errors |-> 0, failures |-> 0,
               sync |-> MaxStoreCalls, horizon |-> MaxNow]
  /\ foreign_keys = TRUE
  /\ reading_progress = {}
  /\ progress_seq = 0
  /\ sdr_backups = {}
  /\ hist = [progress |-> << >>, sdr |-> << >>, recent |-> << >>]
  /\ highlights = << >>
  /\ bookmarks = << >>
  /\ call = NoCall
  /\ InitOther

NextStore ==
  \/ DbSaveBook
  \/ DbDeleteBooksNotIn

SpecStore == InitStore /\ [][NextStore]_vars

(***************************************************************************)
(* Vocabulary of the properties.                                           *)
(***************************************************************************)
\* the ids a table holds for a library
LibraryIds(table, l) == {i \in DOMAIN table : table[i].library_id = l}
MirrorIds == {b.id : b \in mirror}
RootOf(l) == IF l = "L1" THEN "top" ELSE "top/sub"
\* thread t's scan has rebuilt the mirror and is about to return Ok
Finished(t) == scan[t].pc = "release" /\ scan[t].result = "ok"
\* ... and the filesystem has not changed since the scan began
Completed(t) == Finished(t) /\ scan[t].quiet
FileGone(i) == files[PathOf(i)] = NoFile
FileSeen(i) == files[PathOf(i)] # NoFile /\ PathOf(i) \notin unreadable
\* the walk of root meets a file it cannot read
WalkIncomplete(root) ==
  \E p \in Under(root) : files[p] # NoFile /\ p \in unreadable
SameStat(book, p) ==
  book.file_size = files[p].size /\ book.mtime = files[p].mtime

(***************************************************************************)
(* C1.  At most one scan is in flight at any time, and a call of           *)
(* scan_all_libraries made while a scan is in flight returns at once: it   *)
(* walks nothing, writes nothing to the store, prunes nothing, does not    *)
(* rebuild the mirror and leaves no scan queued for its thread.            *)
(***************************************************************************)
AtMostOneScan ==
  /\ Cardinality({t \in DOMAIN scan : scan[t].pc # "idle"}) <= 1
  /\ (\E t \in DOMAIN scan : scan[t].pc # "idle") => scanning

DroppedCallDoesNothing ==
  dropped' # dropped => UNCHANGED << books, mirror, loaded, scan, fsVars >>

C1_ScanMutualExclusion == [][DroppedCallDoesNothing]_vars /\ []AtMostOneScan

\* a call was dropped while the scan of another thread is processing files
C1_Witness ==
  /\ dropped > 0
  /\ \E t \in DOMAIN scan : scan[t].pc = "process" /\ scan[t].todo # {}

(***************************************************************************)
(* C2.  Pruning: when a library holds three entries, one of their files    *)
(* has been deleted and the other two are still on disk, a scan reports    *)
(* removed = 1 for the library and leaves exactly the other two entries    *)
(* for it in the store and in the mirror.                                  *)
(***************************************************************************)
PruneCase(t, l) ==
  LET before == LibraryIds(scan[t].pre, l)
  IN /\ Cardinality(before) = 3
     /\ Cardinality({i \in before : FileGone(i)}) = 1
     /\ \A i \in before : FileGone(i) \/ FileSeen(i)

C2_Pruning ==
  \A t \in DOMAIN scan : \A l \in LibIds :
    Completed(t) /\ PruneCase(t, l) =>
      LET before == LibraryIds(scan[t].pre, l)
          kept == {i \in before : ~FileGone(i)}
      IN /\ scan[t].stats[l].removed = 1
         /\ LibraryIds(books, l) = kept
         /\ MirrorIds \cap before = kept

C2_Witness ==
  \E t \in DOMAIN scan : \E l \in LibIds :
    Completed(t) /\ PruneCase(t, l) /\ scan[t].stats[l].removed = 1

(***************************************************************************)
(* C3.  Idempotent rescan: once the files of the libraries are indexed     *)
(* (every file a walk finds has a stored entry with its size and mtime,    *)
(* every stored entry has its file), a scan reports new = 0, updated = 0,  *)
(* removed = 0 and unchanged = the number of files of each library, and    *)
(* writes nothing to the store.                                            *)
(***************************************************************************)
Indexed(table) ==
  /\ \A l \in LibIds : \A p \in WalkFiles(RootOf(l)) :
       new_v5(p) \in DOMAIN table /\ SameStat(table[new_v5(p)], p)
  /\ \A i \in DOMAIN table : FileSeen(i)

C3_IdempotentRescan ==
  \A t \in DOMAIN scan :
    Completed(t) /\ Indexed(scan[t].pre) =>
      /\ scan[t].wrote = {}
      /\ \A l \in LibIds : RootOf(l) \in dirs =>
           scan[t].stats[l] =
             [ new |-> 0, updated |-> 0, removed |-> 0,
               unchanged |-> Cardinality(WalkFiles(RootOf(l))) ]

(***************************************************************************)
(* C4.  Change detection: a scan that finds a file whose size or mtime     *)
(* differs from its stored entry re-extracts it and stores the new size    *)
(* and mtime with an updated_at not older than the one before; a scan that *)
(* finds a file whose size and mtime equal the stored ones does not write  *)
(* its entry, which is the same before and after the scan.                 *)
(***************************************************************************)
C4_ChangeDetection ==
  \A t \in DOMAIN scan : \A l \in LibIds :
    Completed(t) /\ RootOf(l) \in dirs =>
      \A p \in WalkFiles(RootOf(l)) :
        LET i == new_v5(p)
        IN i \in DOMAIN scan[t].pre =>
             IF SameStat(scan[t].pre[i], p)
               THEN /\ i \notin scan[t].wrote
                    /\ i \in DOMAIN books
                    /\ books[i] = scan[t].pre[i]
               ELSE /\ i \in scan[t].wrote
                    /\ i \in DOMAIN books
                    /\ SameStat(books[i], p)
                    /\ books[i].updated_at >= scan[t].pre[i].updated_at

(***************************************************************************)
(* C12.  A read of the mirror made while a scan is in flight and has not   *)
(* yet swapped the mirror returns what it returned when the scan began:    *)
(* get_all_books, get_book, get_recent, search and book_count see the      *)
(* previous snapshot whole.  The mirror changes in one step only, the swap *)
(* of load_from_db, and becomes the books of the whole store.              *)
(***************************************************************************)
BeforeSwap(t) == scan[t].pc \in {"list", "lib", "process"}

ReadsPreviousSnapshot ==
  \A t \in DOMAIN scan :
    BeforeSwap(t) =>
      /\ get_all_books(mirror) = get_all_books(scan[t].shown)
      /\ book_count(mirror) = book_count(scan[t].shown)
      /\ \A i \in BookIds : get_book(mirror, i) = get_book(scan[t].shown, i)
      /\ \A n \in 0 .. Cardinality(Paths) :
           get_recent(mirror, n) = get_recent(scan[t].shown, n)
      /\ \A q \in Queries : search(mirror, q) = search(scan[t].shown, q)

SwapIsWhole ==
  mirror' # mirror => mirror' = LoadBooks(books, now)

C12_MirrorReadsSeeWholeSnapshot ==
  [][SwapIsWhole]_vars /\ []ReadsPreviousSnapshot

\* a scan has written to the store and has files left to process, and the
\* mirror still shows the books of the snapshot before, not those of the store
C12_Witness ==
  \E t \in DOMAIN scan :
    /\ scan[t].pc = "process"
    /\ scan[t].wrote # {}
    /\ scan[t].todo # {}
    /\ scan[t].shown # {}
    /\ mirror = scan[t].shown
    /\ mirror # LoadBooks(books, now)

(***************************************************************************)
(* C13.  When a scan has finished with Ok, the mirror holds exactly one    *)
(* book per entry of the store, of any library: the same ids, each with    *)
(* the title, path, format, file size and mtime of its stored entry.       *)
(***************************************************************************)
C13_MirrorEqualsStoreAfterScan ==
  \A t \in DOMAIN scan :
    Finished(t) =>
      /\ MirrorIds = DOMAIN books
      /\ Cardinality(mirror) = Cardinality(DOMAIN books)
      /\ \A b \in mirror :
           /\ b.id \in DOMAIN books
           /\ b.title = books[b.id].title
           /\ b.path = books[b.id].path
           /\ DebugLower(b.format) = books[b.id].format
           /\ b.file_size = books[b.id].file_size
           /\ b.modified = books[b.id].mtime

\* a scan has finished over a store that holds entries of both libraries
C13_Witness ==
  \E t \in DOMAIN scan :
    /\ Finished(t)
    /\ \A l \in LibIds : LibraryIds(books, l) # {}
    /\ DOMAIN books # DOMAIN scan[t].pre

(***************************************************************************)
(* C14.  When a scan fails with a store error, scan_all_libraries returns  *)
(* the error and the mirror is what it was when the scan began: neither    *)
(* refreshed nor emptied.                                                  *)
(***************************************************************************)
Failed(t) == scan[t].pc = "release" /\ scan[t].result = "err"

C14_FailedScanLeavesMirror ==
  \A t \in DOMAIN scan : Failed(t) => mirror = scan[t].shown

\* a scan failed after it had written to the store, under a mirror that was
\* not empty
C14_Witness ==
  \E t \in DOMAIN scan :
    /\ Failed(t)
    /\ scan[t].wrote # {}
    /\ scan[t].libs # << >>
    /\ mirror # {}
    /\ mirror = scan[t].shown
    /\ mirror # LoadBooks(books, now)

(***************************************************************************)
(* C5.  Reading-progress floor with last write wins: for every key (user,  *)
(* book, device) that has been written, the stored started_at is the one   *)
(* of the first write, and current_page, percentage, status, finished_at   *)
(* and updated_at are those of the latest write.                           *)
(***************************************************************************)
ProgressRows(k) ==
  {r \in reading_progress : << r.user_id, r.book_id, r.device_id >> = k}

C5_ProgressFloorLastWriteWins ==
  \A k \in DOMAIN hist.progress :
    LET w == hist.progress[k]
    IN /\ ProgressRows(k) # {}
       /\ \A r \in ProgressRows(k) :
            /\ r.started_at = w.first.started_at
            /\ r.current_page = w.last.current_page
            /\ r.percentage = w.last.percentage
            /\ r.status = w.last.status
            /\ r.finished_at = w.last.finished_at
            /\ r.updated_at = w.last.updated_at

(***************************************************************************)
(* C6.  The store holds at most one reading_progress row per (user_id,     *)
(* book_id, device_id), a null device_id counting as one value of the key. *)
(***************************************************************************)
C6_OneProgressRowPerKey ==
  \A r \in reading_progress : \A q \in reading_progress :
    ( /\ r.user_id = q.user_id
      /\ r.book_id = q.book_id
      /\ r.device_id = q.device_id ) => r = q

(***************************************************************************)
(* C15.  Most recent call wins across devices: for every user and book     *)
(* whose progress has been written, get_progress returns the row of the    *)
(* write applied last, whatever device it came from.                       *)
(***************************************************************************)
C15_LatestWriteWinsAcrossDevices ==
  \A k \in DOMAIN hist.recent :
    LET w == hist.recent[k]
        got == get_progress(reading_progress, k[1], k[2])
    IN /\ got # None
       /\ got[1].device_id = w.device_id
       /\ got[1].current_page = w.current_page
       /\ got[1].percentage = w.percentage
       /\ got[1].status = w.status
       /\ got[1].updated_at = w.updated_at

(***************************************************************************)
(* C7.  SDR replace: for every (user, book) that save_sdr has written, the *)
(* store holds exactly one row, whose blob, last_page, percent_finished    *)
(* and updated_at are those of the latest write; get_sdr, get_sdr_info     *)
(* and get_user_sdr_list return the latest write and nothing else for the  *)
(* key.                                                                    *)
(***************************************************************************)
C7_SdrReplace ==
  \A k \in DOMAIN hist.sdr :
    LET w == hist.sdr[k].last
        list == get_user_sdr_list(sdr_backups, k[1])
    IN /\ Cardinality({r \in sdr_backups :
                         r.user_id = k[1] /\ r.book_id = k[2]}) = 1
       /\ get_sdr(sdr_backups, k[1], k[2]) = Some(w)
       /\ get_sdr_info(sdr_backups, k[1], k[2]) = Some(SdrInfoOf(w))
       /\ \A i \in DOMAIN list :
            i.book_id = k[2] => i = SdrInfoOf(w) /\ list[i] = 1
       /\ SdrInfoOf(w) \in DOMAIN list

\* a backup has been replaced by one with another blob, page and percentage
C7_Witness ==
  \E k \in DOMAIN hist.sdr :
    LET w == hist.sdr[k]
    IN /\ w.first.data # w.last.data
       /\ w.first.last_page # w.last.last_page
       /\ w.first.percent_finished # w.last.percent_finished
       /\ w.first.updated_at # w.last.updated_at
       /\ get_sdr(sdr_backups, k[1], k[2]) = Some(w.last)

OnlyLibraryOf(p) == Cardinality({l \in LibIds : p \in Under(RootOf(l))}) = 1

C9_NoPruneAfterWalkError ==
  \A t \in DOMAIN scan : \A l \in LibIds :
    Completed(t) /\ RootOf(l) \in dirs /\ WalkIncomplete(RootOf(l)) =>
      /\ scan[t].stats[l].removed = 0
      /\ LibraryIds(scan[t].pre, l) \subseteq DOMAIN books

(***************************************************************************)
(* C10.  A scan whose walk of a library, under a root that exists, finds   *)
(* no recognized file at all prunes nothing: every entry the library had   *)
(* is still stored.                                                        *)
(***************************************************************************)
C10_EmptyWalkPrunesNothing ==
  \A t \in DOMAIN scan : \A l \in LibIds :
    ( /\ Completed(t)
      /\ RootOf(l) \in dirs
      /\ ~WalkIncomplete(RootOf(l))
      /\ WalkFiles(RootOf(l)) = {} ) =>
      LibraryIds(scan[t].pre, l) \subseteq LibraryIds(books, l)

(***************************************************************************)
(* C16.  A save_highlight or save_bookmark that returns Ok with an id the  *)
(* table does not hold adds the record as given; with an id the table      *)
(* holds it sets note, color and updated_at of the highlight, or name of   *)
(* the bookmark, to those of the call and leaves every other field of the  *)
(* row (created_at, text, page, chapter, pos0, pos1, position_data, the    *)
(* owner, the book, the device) as it was; no other row changes.           *)
(***************************************************************************)
HighlightKept ==
  {"user_id", "book_id", "device_id", "page", "chapter", "text", "pos0",
   "pos1", "created_at"}
HighlightSet == {"note", "color", "updated_at"}
BookmarkKept ==
  {"user_id", "book_id", "page", "position_data", "created_at"}
BookmarkSet == {"name"}

\* the table is the one before the call with the record saved: kept fields
\* of a known id as before, set fields as given
SavedInto(table, kept, set) ==
  LET r == call.arg
      old == call.before
  IN /\ DOMAIN table = DOMAIN old \cup {r.id}
     /\ \A i \in DOMAIN old \ {r.id} : table[i] = old[i]
     /\ IF r.id \in DOMAIN old
          THEN /\ \A f \in kept : table[r.id][f] = old[r.id][f]
               /\ \A f \in set : table[r.id][f] = r[f]
          ELSE table[r.id] = r

C16_SaveChangesOnlyMutableFields ==
  /\ call.op = "save_highlight" /\ call.ok =>
       SavedInto(highlights, HighlightKept, HighlightSet)
  /\ call.op = "save_bookmark" /\ call.ok =>
       SavedInto(bookmarks, BookmarkKept, BookmarkSet)

\* a highlight is saved again under its id with another text, page, owner,
\* note and time
C16_Witness ==
  /\ call.op = "save_highlight"
  /\ call.ok
  /\ call.arg.id \in DOMAIN call.before
  /\ LET old == call.before[call.arg.id]
     IN /\ call.arg.text # old.text
        /\ call.arg.page # old.page
        /\ call.arg.user_id # old.user_id
        /\ call.arg.created_at # old.created_at
        /\ call.arg.note # old.note
        /\ highlights[call.arg.id].note = call.arg.note
        /\ highlights[call.arg.id].text = old.text

(***************************************************************************)
(* C11.  After delete_books_not_in(library_id, keep_ids) with a non-empty  *)
(* keep_ids the entries gone from the store are exactly those of the       *)
(* library whose id is not in keep_ids, every other entry (the ones        *)
(* listed, the ones of other libraries) is as it was, and the call         *)
(* returned the number of entries gone; with an empty keep_ids the store   *)
(* is as it was and the call returned 0.                                   *)
(***************************************************************************)
C11_DeleteBooksNotIn ==
  call.op = "delete_books_not_in" =>
    LET old == call.before
        l == call.arg.library_id
        keep == call.arg.keep_ids
        gone == (DOMAIN old) \ DOMAIN books
    IN /\ DOMAIN books \subseteq DOMAIN old
       /\ \A i \in DOMAIN books : books[i] = old[i]
       /\ call.result = Cardinality(gone)
       /\ IF keep = {}
            THEN gone = {}
            ELSE gone = {i \in DOMAIN old : /\ old[i].library_id = l
                                            /\ i \notin keep}

\* a call that deletes an entry of the library, keeps a listed one of the
\* library and leaves an unlisted entry of the other library
C11_Witness ==
  /\ call.op = "delete_books_not_in"
  /\ call.arg.keep_ids # {}
  /\ call.result = 1
  /\ \E i \in DOMAIN books :
       /\ books[i].library_id = call.arg.library_id
       /\ i \in call.arg.keep_ids
  /\ \E i \in DOMAIN books :
       /\ books[i].library_id # call.arg.library_id
       /\ i \notin call.arg.keep_ids

(***************************************************************************)
(* C18.  save_book is idempotent: when save_book is called with a row and  *)
(* then again with the same row, the store after the second call is the    *)
(* store after the first (same rows, same field values).                   *)
(***************************************************************************)
C18_SaveBookIdempotent ==
  call.op = "save_book" /\ call.again => books = call.before

\* the row saved twice met a row of its id from another library, indexed at
\* another time with another size, which the first call updated
C18_Witness ==
  /\ call.op = "save_book"
  /\ call.again
  /\ books[call.arg.id].library_id # call.arg.library_id
  /\ books[call.arg.id].created_at # call.arg.created_at
  /\ books[call.arg.id].file_size = 2
  /\ books[call.arg.id].updated_at = call.arg.updated_at

(***************************************************************************)
(* C17.  An upload through sync_upload_sdr of a blob from which no page    *)
(* and no percentage can be read (a blob that is no tar.gz, an archive     *)
(* without a metadata file), for a book the store can refer to, is not     *)
(* rejected: the call returns Ok and the store holds for (user, book) the  *)
(* blob as sent, with last_page and percent_finished None.                 *)
(***************************************************************************)
NoSummary ==
  {body \in SdrBodies : /\ extract_sdr_metadata(body).last_page = None
                        /\ extract_sdr_metadata(body).percent_finished = None}

C17_MalformedBlobStored ==
  ( /\ call.op = "sync_upload_sdr"
    /\ call.arg.body \in NoSummary
    /\ ReferenceHolds(call.arg.book_id) ) =>
      /\ call.ok
      /\ \E r \in sdr_backups :
           /\ r.user_id = call.arg.user_id
           /\ r.book_id = call.arg.book_id
           /\ r.data = call.arg.body
           /\ r.last_page = None
           /\ r.percent_finished = None

(***************************************************************************)
(* C19.  Whatever scans have run, and while one runs, the store holds at   *)
(* most one catalog entry per (library_id, path).                          *)
(***************************************************************************)
C19_OneEntryPerLibraryPath ==
  \A i, j \in DOMAIN books :
    (books[i].library_id = books[j].library_id /\ books[i].path = books[j].path)
      => i = j

\* a scan has finished that stored again, for a file that had changed, an
\* entry the scans before it had stored, next to other entries of the library
C19_Witness ==
  \E t \in DOMAIN scan :
    /\ Finished(t)
    /\ \E i \in scan[t].wrote \cap DOMAIN scan[t].pre :
         /\ i \in DOMAIN books
         /\ books[i].path = scan[t].pre[i].path
         /\ books[i].library_id = scan[t].pre[i].library_id
         /\ books[i].mtime # scan[t].pre[i].mtime
         /\ Cardinality(LibraryIds(books, books[i].library_id)) = 3

(***************************************************************************)
(* C20.  The id of a catalog entry is the version-5 UUID of its path and   *)
(* of nothing else: every id a walk has computed, every id in the store    *)
(* and every id in the mirror is the id Book::new derives for the path,    *)
(* whichever scan or process stored it and whatever the size, the mtime    *)
(* and the stored state were then and are now.                             *)
(***************************************************************************)
IdOfPath(p) == Book_new(p, from_extension(Extension(p)), now).id

C20_DeterministicId ==
  /\ \A i \in DOMAIN books : i = IdOfPath(books[i].path)
  /\ \A b \in mirror : b.id = IdOfPath(b.path)
  /\ \A t \in DOMAIN scan :
       /\ \A f \in scan[t].todo : IdOfPath(f.path) \in scan[t].scanned
       /\ \A i \in scan[t].scanned : i \in {IdOfPath(p) : p \in Paths}
       /\ \A i \in DOMAIN scan[t].existing :
            i = IdOfPath(scan[t].existing[i].path)

\* the process was restarted after a scan; a scan of the new process walks a
\* file that the old one stored and that has changed since, and finds its
\* entry under the id it computes
C20_Witness ==
  \E t \in DOMAIN scan :
    /\ call.op = "restart"
    /\ scan[t].pc = "process"
    /\ \E f \in scan[t].todo :
         /\ IdOfPath(f.path) \in DOMAIN call.before
         /\ IdOfPath(f.path) \in DOMAIN scan[t].existing
         /\ scan[t].existing[IdOfPath(f.path)].mtime # f.mtime

(***************************************************************************)
(* C21.  During a batch the number of files whose closure is in progress   *)
(* never exceeds the configured scan.workers, whatever its value; with the *)
(* default value the files are processed one after another.                *)
(***************************************************************************)
C21_InFlightWithinWorkers ==
  /\ Cardinality(pool.active) <= pool.workers
  /\ pool.workers = default_scan_workers => Cardinality(pool.active) <= 1

(***************************************************************************)
(* C22.  No closure of the batch holds the store's mutex while it extracts *)
(* or waits: the mutex is held only by a closure inside its save_book      *)
(* statement, and is free whenever no closure is inside that statement,    *)
(* so that the store call of a request waits for no extraction.            *)
(***************************************************************************)
C22_NoLockDuringExtraction ==
  /\ \A w \in pool.active :
       w.pc \in {"extract", "lock"} => db_lock # w.file.path
  /\ db_lock # Null => \E w \in Workers("save") : db_lock = w.file.path
  /\ Workers("save") = {} => db_lock = Null

\* a highlight was saved for a request that arrived during the batch, and
\* two closures are extracting
C22_Witness ==
  /\ call.op = "save_highlight"
  /\ call.ok
  /\ call.arg.id \in DOMAIN highlights
  /\ Cardinality(Workers("extract")) = 2
  /\ db_lock = Null

(***************************************************************************)
(* C23.  No step of a scan adds a reading-state row (reading_progress,     *)
(* sdr_backups, highlights, bookmarks) or changes one, and a row goes      *)
(* away in a step only where the store enforces foreign keys and the step  *)
(* deleted the book the row refers to.                                     *)
(***************************************************************************)
ScanKeepsReadingState ==
  LET gone == (DOMAIN books) \ DOMAIN books'
      Cascaded(r) == foreign_keys /\ r.book_id \in gone
  IN /\ reading_progress' \subseteq reading_progress
     /\ \A r \in reading_progress \ reading_progress' : Cascaded(r)
     /\ sdr_backups' \subseteq sdr_backups
     /\ \A r \in sdr_backups \ sdr_backups' : Cascaded(r)
     /\ DOMAIN highlights' \subseteq DOMAIN highlights
     /\ \A i \in DOMAIN highlights :
          IF i \in DOMAIN highlights' THEN highlights'[i] = highlights[i]
                                      ELSE Cascaded(highlights[i])
     /\ DOMAIN bookmarks' \subseteq DOMAIN bookmarks
     /\ \A i \in DOMAIN bookmarks :
          IF i \in DOMAIN bookmarks' THEN bookmarks'[i] = bookmarks[i]
                                     ELSE Cascaded(bookmarks[i])

C23_ScanKeepsReadingState == [][ScanKeepsReadingState]_vars

\* a scan has pruned the book of a store that does not enforce foreign keys,
\* and the four rows that refer to it are still there
C23_Witness ==
  \E t \in DOMAIN scan :
    /\ Finished(t)
    /\ ~foreign_keys
    /\ new_v5("top/a.pdf") \in DOMAIN scan[t].pre
    /\ new_v5("top/a.pdf") \notin DOMAIN books
    /\ reading_progress # {} /\ sdr_backups # {}
    /\ highlights # << >> /\ bookmarks # << >>

(***************************************************************************)
(* The users, sessions and libraries of the store (db/schema.rs).  A       *)
(* statement of the store returns the table after it, and Ok or the kind   *)
(* of AppError its map_err makes of the error of SQLite.                   *)
(***************************************************************************)
Stored(table) == [ok |-> TRUE, error |-> Null, table |-> table]
Refused(kind, table) == [ok |-> FALSE, error |-> kind, table |-> table]

\* create_user: INSERT INTO users; id is the PRIMARY KEY and username is
\* UNIQUE, SQLite reports either violation as "UNIQUE constraint failed",
\* which map_err turns into InvalidFormat
create_user(table, user) ==
  IF \/ user.id \in DOMAIN table
     \/ \E i \in DOMAIN table : table[i].username = user.username
    THEN Refused("InvalidFormat", table)
    ELSE Stored((user.id :> user) @@ table)

get_user_by_username(username) ==
  IF \E i \in DOMAIN users : users[i].username = username
    THEN Some(users[CHOOSE i \in DOMAIN users : users[i].username = username])
    ELSE None

get_user_by_id(id) == IF id \in DOMAIN users THEN Some(users[id]) ELSE None

\* update_user_last_login: UPDATE users SET last_login = now WHERE id
update_user_last_login(table, id, clock) ==
  [i \in DOMAIN table |->
     IF i = id THEN [table[i] EXCEPT !.last_login = Some(clock)]
               ELSE table[i]]

\* create_session: INSERT INTO sessions; token is the PRIMARY KEY, user_id
\* refers to a user where foreign keys are enforced; map_err turns every
\* error into Internal
create_session(table, session) ==
  IF \/ session.token \in DOMAIN table
     \/ foreign_keys /\ session.user_id \notin DOMAIN users
    THEN Refused("Internal", table)
    ELSE Stored((session.token :> session) @@ table)

get_session(token) ==
  IF token \in DOMAIN sessions THEN Some(sessions[token]) ELSE None

\* delete_session: DELETE FROM sessions WHERE token
delete_session(table, token) ==
  [k \in (DOMAIN table) \ {token} |-> table[k]]

\* cleanup_expired_sessions deleting the sessions that expire at the
\* current second as well
cleanup_expired_sessions_now(table, clock) ==
  LET expired == {k \in DOMAIN table : table[k].expires_at <= clock}
  IN [table |-> [k \in (DOMAIN table) \ expired |-> table[k]],
      rows |-> Cardinality(expired)]

\* cleanup_expired_sessions: DELETE FROM sessions WHERE expires_at < now,
\* the number of rows deleted
cleanup_expired_sessions(table, clock) ==
  LET expired == {k \in DOMAIN table : table[k].expires_at < clock}
  IN [table |-> [k \in (DOMAIN table) \ expired |-> table[k]],
      rows |-> Cardinality(expired)]

\* create_library: INSERT INTO libraries; id is the PRIMARY KEY, owner_id
\* refers to a user where foreign keys are enforced; map_err turns every
\* error into Internal
create_library(table, library) ==
  IF \/ library.id \in DOMAIN table
     \/ /\ foreign_keys
        /\ library.owner_id # Null
        /\ library.owner_id \notin DOMAIN users
    THEN Refused("Internal", table)
    ELSE Stored((library.id :> library) @@ table)

(***************************************************************************)
(* The calls of the store on these tables, with rows as the callers and    *)
(* the tests of the store (tests.rs) build them.                           *)
(***************************************************************************)
\* the most calls of the store on these tables
MaxTableCalls == 3

\* the tokens of rows written directly
RowTokens == {<< "token", 1 >>, << "token", 2 >>}

NewUsers ==
  { [id |-> i, username |-> n, password_hash |-> hash_password("other"),
     display_name |-> Null, role |-> "user", created_at |-> 0,
     last_login |-> None] : i \in {"u1", "u3"}, n \in {"alice", "carol"} }

NewSessions ==
  { [token |-> k, user_id |-> u, device_id |-> Null, expires_at |-> e] :
      k \in RowTokens, u \in {"u1", "u3"}, e \in 0 .. 2 }

NewLibraries ==
  { [id |-> l, name |-> "more", path |-> "elsewhere", is_public |-> FALSE,
     owner_id |-> o, created_at |-> 0] :
      l \in {"L1", "L3"}, o \in {Null, "u3"} }

tableFrame ==
  << fsVars, books, mirror, loaded, scanning, scan, started, dropped,
     foreign_keys, progressVars, noteVars, pool, db_lock, issued, coverVars >>

DbCreateUser ==
  /\ budget.sync > 0
  /\ \E user \in NewUsers :
       LET r == create_user(users, user)
       IN /\ users' = r.table
          /\ call' = [op |-> "create_user", arg |-> user, before |-> users,
                      ok |-> r.ok, error |-> r.error]
  /\ budget' = [budget EXCEPT !.sync = @ - 1]
  /\ UNCHANGED << now, sessions, libraries, tableFrame >>

DbCreateSession ==
  /\ budget.sync > 0
  /\ \E session \in NewSessions :
       LET r == create_session(sessions, session)
       IN /\ sessions' = r.table
          /\ call' = [op |-> "create_session", arg |-> session,
                      before |-> sessions, ok |-> r.ok, error |-> r.error]
  /\ budget' = [budget EXCEPT !.sync = @ - 1]
  /\ UNCHANGED << now, users, libraries, tableFrame >>

DbCreateLibrary ==
  /\ budget.sync > 0
  /\ \E library \in NewLibraries :
       LET r == create_library(libraries, library)
       IN /\ libraries' = r.table
          /\ call' = [op |-> "create_library", arg |-> library,
                      before |-> libraries, ok |-> r.ok, error |-> r.error]
  /\ budget' = [budget EXCEPT !.sync = @ - 1]
  /\ UNCHANGED << now, users, sessions, tableFrame >>

DbCleanupExpiredSessions ==
  /\ budget.sync > 0
  /\ \E clock \in ClockReadings :
       LET r == cleanup_expired_sessions(sessions, clock)
       IN /\ now' = clock
          /\ sessions' = r.table
          /\ call' = [op |-> "cleanup_expired_sessions", arg |-> clock,
                      before |-> sessions, ok |-> TRUE, result |-> r.rows]
  /\ budget' = [budget EXCEPT !.sync = @ - 1]
  /\ UNCHANGED << users, libraries, tableFrame >>

InitTableCalls ==
  /\ dirs = Dirs
  /\ files = [p \in Paths |-> NoFile]
  /\ unreadable = {}
  /\ now = 0
  /\ books = << >>
  /\ mirror = {}
  /\ loaded = TRUE
  /\ scanning = FALSE
  /\ scan = [t \in {"t1"} |-> IdleScan]
  /\ started = TRUE
  /\ dropped = 0
  /\ budget = [fs |-> 0, calls |-> 0, errors |-> 0, failures |-> 0,
               sync |-> MaxTableCalls, horizon |-> MaxNow]
  /\ foreign_keys \in BOOLEAN
  /\ reading_progress = {}
  /\ progress_seq = 0
  /\ sdr_backups = {}
  /\ hist = [progress |-> << >>, sdr |-> << >>, recent |-> << >>]
  /\ highlights = << >>
  /\ bookmarks = << >>
  /\ call = NoCall
  /\ InitOther

NextTableCalls ==
  \/ DbCreateUser
  \/ DbCreateSession
  \/ DbCreateLibrary
  \/ DbCleanupExpiredSessions

SpecTableCalls == InitTableCalls /\ [][NextTableCalls]_vars

(***************************************************************************)
(* C24.  A create_user, create_session or create_library whose row has the *)
(* unique key of a row already stored (the id or the username of a user,   *)
(* the token of a session, the id of a library) fails with InvalidFormat   *)
(* and leaves its table as it was.                                         *)
(***************************************************************************)
C24_UniqueViolationIsInvalidFormat ==
  LET table == CASE call.op = "create_user" -> users
                 [] call.op = "create_session" -> sessions
                 [] call.op = "create_library" -> libraries
      Violates ==
        CASE call.op = "create_user" ->
               \/ call.arg.id \in DOMAIN call.before
               \/ \E i \in DOMAIN call.before :
                    call.before[i].username = call.arg.username
          [] call.op = "create_session" ->
               call.arg.token \in DOMAIN call.before
          [] call.op = "create_library" ->
               call.arg.id \in DOMAIN call.before
  IN call.op \in {"create_user", "create_session", "create_library"}
       => (Violates => /\ ~call.ok
                       /\ call.error = "InvalidFormat"
                       /\ table = call.before)

(***************************************************************************)
(* C30.  After cleanup_expired_sessions the sessions table holds exactly   *)
(* the sessions it held before whose expires_at is not before the time of  *)
(* the call, each with the row it had, get_session finds none of the       *)
(* others, and the call returned the number of sessions that went away.    *)
(***************************************************************************)
C30_CleanupDeletesExpired ==
  call.op = "cleanup_expired_sessions" =>
    /\ \A k \in DOMAIN call.before :
         IF call.before[k].expires_at < call.arg
           THEN get_session(k) = None
           ELSE get_session(k) = Some(call.before[k])
    /\ DOMAIN sessions \subseteq DOMAIN call.before
    /\ call.result =
         Cardinality({k \in DOMAIN call.before :
                        call.before[k].expires_at < call.arg})

\* a cleanup deleted a session and kept one that expires at the very second
\* of the call
C30_Witness ==
  /\ call.op = "cleanup_expired_sessions"
  /\ call.result = 1
  /\ \E k \in DOMAIN sessions : sessions[k].expires_at = call.arg

(***************************************************************************)
(* The authentication service (auth.rs).                                   *)
(***************************************************************************)
\* auth.session_days as default_session_days gives it
default_session_days == 30

\* the most logins that reach generate_token, and the most calls of the
\* service
MaxLogins == 2
MaxAuthCalls == 4

\* generate_token: 32 bytes of OsRng, a token no earlier call has returned
Tokens == { << "token", n >> : n \in 1 .. MaxLogins }
generate_token == CHOOSE k \in Tokens : k \notin DOMAIN issued

\* the tokens a request presents: one the service has issued, or one it
\* never issued
UnknownToken == << "token", 0 >>
PresentedTokens == (DOMAIN issued) \cup {UnknownToken}

\* the instants at which the service is called: the start, a second later,
\* and the two seconds around the expiry of a session of the start
AuthInstants ==
  {0, 1, default_session_days * 24 * 60 * 60,
   default_session_days * 24 * 60 * 60 + 1}

Credentials ==
  [username : {"alice", "mallory"}, password : {"secret", "guess"}]

authFrame ==
  << fsVars, books, mirror, loaded, scanning, scan, started, dropped,
     foreign_keys, pool, db_lock, coverVars >>

\* time passes between two calls
ClockAdvance ==
  /\ \E t \in AuthInstants : t > now /\ now' = t
  /\ UNCHANGED << budget, call, authVars, progressVars, noteVars, authFrame >>

\* login(username, password, device_id)
AuthLogin(c) ==
  /\ budget.sync > 0
  /\ LET found == get_user_by_username(c.username)
     IN IF found = None \/ ~verify_password(c.password,
                                             found[1].password_hash)
          THEN /\ call' = [op |-> "login", arg |-> c, ok |-> FALSE,
                           error |-> "InvalidFormat", users |-> users,
                           sessions |-> sessions]
               /\ UNCHANGED authVars
          ELSE LET user == found[1]
                   token == generate_token
                   session == [token |-> token, user_id |-> user.id,
                               device_id |-> Null,
                               expires_at |->
                                 now + default_session_days * 24 * 60 * 60]
                   r == create_session(sessions, session)
               IN /\ Cardinality(DOMAIN issued) < MaxLogins
                  /\ users' = update_user_last_login(users, user.id, now)
                  /\ sessions' = r.table
                  /\ issued' = (token :> [state |-> "issued", user |-> user.id,
                                           deleted |-> FALSE]) @@ issued
                  /\ call' = [op |-> "login", arg |-> c, ok |-> r.ok,
                              error |-> r.error, at |-> now, users |-> users,
                              sessions |-> sessions, token |-> token,
                              user |-> user]
                  /\ UNCHANGED libraries
  /\ budget' = [budget EXCEPT !.sync = @ - 1]
  /\ UNCHANGED << now, progressVars, noteVars, authFrame >>

\* validate_token that takes a session for expired from the second it
\* expires at
AuthValidateToken_strict(token) ==
  /\ budget.sync > 0
  /\ LET found == get_session(token)
     IN IF found = None
          THEN /\ call' = [op |-> "validate_token", arg |-> token,
                           at |-> now, users |-> users,
                           sessions |-> sessions, result |-> None]
               /\ UNCHANGED sessions
          ELSE IF found[1].expires_at <= now
            THEN /\ sessions' = delete_session(sessions, token)
                 /\ call' = [op |-> "validate_token", arg |-> token,
                             at |-> now, users |-> users,
                             sessions |-> sessions, result |-> None]
            ELSE /\ call' = [op |-> "validate_token", arg |-> token,
                             at |-> now, users |-> users,
                             sessions |-> sessions,
                             result |-> get_user_by_id(found[1].user_id)]
                 /\ UNCHANGED sessions
  /\ budget' = [budget EXCEPT !.sync = @ - 1]
  /\ UNCHANGED << now, users, libraries, issued, progressVars, noteVars,
                  authFrame >>

\* validate_token(token)
AuthValidateToken(token) ==
  /\ budget.sync > 0
  /\ LET found == get_session(token)
     IN IF found = None
          THEN /\ call' = [op |-> "validate_token", arg |-> token,
                           at |-> now, users |-> users,
                           sessions |-> sessions, result |-> None]
               /\ UNCHANGED sessions
          ELSE IF found[1].expires_at < now
            THEN /\ sessions' = delete_session(sessions, token)
                 /\ call' = [op |-> "validate_token", arg |-> token,
                             at |-> now, users |-> users,
                             sessions |-> sessions, result |-> None]
            ELSE /\ call' = [op |-> "validate_token", arg |-> token,
                             at |-> now, users |-> users,
                             sessions |-> sessions,
                             result |-> get_user_by_id(found[1].user_id)]
                 /\ UNCHANGED sessions
  /\ budget' = [budget EXCEPT !.sync = @ - 1]
  /\ UNCHANGED << now, users, libraries, issued, progressVars, noteVars,
                  authFrame >>

\* logout that leaves the session in the store
AuthLogout_kept(token) ==
  /\ budget.sync > 0
  /\ issued' = [k \in DOMAIN issued |->
                  IF k = token THEN [issued[k] EXCEPT !.state = "logged_out"]
                               ELSE issued[k]]
  /\ call' = [op |-> "logout", arg |-> token, sessions |-> sessions]
  /\ budget' = [budget EXCEPT !.sync = @ - 1]
  /\ UNCHANGED << now, users, sessions, libraries, progressVars, noteVars,
                  authFrame >>

\* logout(token)
AuthLogout(token) ==
  /\ budget.sync > 0
  /\ sessions' = delete_session(sessions, token)
  /\ issued' = [k \in DOMAIN issued |->
                  IF k = token THEN [issued[k] EXCEPT !.state = "logged_out"]
                               ELSE issued[k]]
  /\ call' = [op |-> "logout", arg |-> token, sessions |-> sessions]
  /\ budget' = [budget EXCEPT !.sync = @ - 1]
  /\ UNCHANGED << now, users, libraries, progressVars, noteVars, authFrame >>

\* delete_user(username): DELETE FROM users WHERE username; where foreign
\* keys are enforced the rows that refer to the user go with it (ON DELETE
\* CASCADE) and the libraries it owned lose their owner (ON DELETE SET NULL)
AuthDeleteUser(username) ==
  /\ budget.sync > 0
  /\ LET gone == {i \in DOMAIN users : users[i].username = username}
         Kept(rows) == IF foreign_keys
                         THEN {r \in rows : r.user_id \notin gone} ELSE rows
         KeptIn(table) ==
           IF foreign_keys
             THEN [k \in {i \in DOMAIN table : table[i].user_id \notin gone}
                     |-> table[k]]
             ELSE table
     IN /\ users' = [i \in (DOMAIN users) \ gone |-> users[i]]
        /\ sessions' = KeptIn(sessions)
        /\ libraries' =
             [l \in DOMAIN libraries |->
                IF foreign_keys /\ libraries[l].owner_id \in gone
                  THEN [libraries[l] EXCEPT !.owner_id = Null]
                  ELSE libraries[l]]
        /\ reading_progress' = Kept(reading_progress)
        /\ sdr_backups' = Kept(sdr_backups)
        /\ highlights' = KeptIn(highlights)
        /\ bookmarks' = KeptIn(bookmarks)
        /\ issued' = [k \in DOMAIN issued |->
                        IF issued[k].user \in gone
                          THEN [issued[k] EXCEPT !.deleted = TRUE]
                          ELSE issued[k]]
        /\ call' = [op |-> "delete_user", arg |-> username,
                    result |-> gone # {}]
  /\ budget' = [budget EXCEPT !.sync = @ - 1]
  /\ UNCHANGED << now, progress_seq, hist, authFrame >>

InitAuth ==
  /\ dirs = Dirs
  /\ files = [p \in Paths |-> NoFile]
  /\ unreadable = {}
  /\ now = 0
  /\ books = << >>
  /\ mirror = {}
  /\ loaded = TRUE
  /\ scanning = FALSE
  /\ scan = [t \in {"t1"} |-> IdleScan]
  /\ started = TRUE
  /\ dropped = 0
  /\ budget = [fs |-> 0, calls |-> 0, errors |-> 0, failures |-> 0,
               sync |-> MaxAuthCalls, horizon |-> 0]
  /\ foreign_keys \in BOOLEAN
  /\ reading_progress = {}
  /\ progress_seq = 0
  /\ sdr_backups = {}
  /\ hist = [progress |-> << >>, sdr |-> << >>, recent |-> << >>]
  /\ highlights = << >>
  /\ bookmarks = << >>
  /\ call = NoCall
  /\ InitOther

NextAuth ==
  \/ ClockAdvance
  \/ \E c \in Credentials : AuthLogin(c)
  \/ \E token \in PresentedTokens : AuthValidateToken(token)
  \/ \E token \in PresentedTokens : AuthLogout(token)
  \/ \E username \in {"alice"} : AuthDeleteUser(username)

SpecAuth == InitAuth /\ [][NextAuth]_vars

(***************************************************************************)
(* C27.  A token that logout was called with has no session, and a         *)
(* validate_token of it made since returned None, whatever was called in   *)
(* between: a later login of the same user has another token.              *)
(***************************************************************************)
C27_LoggedOutStaysOut ==
  \A k \in DOMAIN issued :
    issued[k].state = "logged_out" =>
      /\ get_session(k) = None
      /\ call.op = "validate_token" /\ call.arg = k => call.result = None
      /\ call.op = "login" /\ call.ok => call.token # k

\* the user logged in, logged out and logged in again; the first token was
\* then refused while the second session is in the store
C27_Witness ==
  \E k \in DOMAIN issued :
    /\ issued[k].state = "logged_out"
    /\ call.op = "validate_token" /\ call.arg = k /\ call.result = None
    /\ \E j \in DOMAIN sessions :
         /\ j # k
         /\ sessions[j].user_id = "u1"
         /\ sessions[j].expires_at >= now

(***************************************************************************)
(* C28.  validate_token returns the user of the session of the token when  *)
(* the session exists, does not expire before the time of the call and its *)
(* user exists, and None otherwise; it deletes the session, and nothing    *)
(* else, when the session expires before the time of the call, and leaves  *)
(* the sessions as they were in every other case.                          *)
(***************************************************************************)
C28_ValidateToken ==
  call.op = "validate_token" =>
    LET known == call.arg \in DOMAIN call.sessions
        session == call.sessions[call.arg]
    IN /\ users = call.users
       /\ IF known /\ session.expires_at < call.at
            THEN /\ call.result = None
                 /\ sessions = [k \in (DOMAIN call.sessions) \ {call.arg} |->
                                  call.sessions[k]]
            ELSE sessions = call.sessions
       /\ IF /\ known
             /\ ~(session.expires_at < call.at)
             /\ session.user_id \in DOMAIN call.users
            THEN call.result = Some(call.users[session.user_id])
            ELSE call.result = None

\* a token was accepted in the very second its session expires at
C28_Witness ==
  /\ call.op = "validate_token"
  /\ call.arg \in DOMAIN sessions
  /\ sessions[call.arg].expires_at = call.at
  /\ call.result # None

(***************************************************************************)
(* C29.  A login with a username no user has, or with a password that is   *)
(* not the user's, returns an error and leaves users and sessions as they  *)
(* were; a login that returns Ok has added exactly one session, of a new   *)
(* token and of that user, which validate_token accepts at that time, and  *)
(* has changed no other session.                                           *)
(***************************************************************************)
C29_Login ==
  call.op = "login" =>
    LET named == {i \in DOMAIN call.users :
                    call.users[i].username = call.arg.username}
        right == \E i \in named :
                   call.users[i].password_hash =
                     hash_password(call.arg.password)
    IN IF right
         THEN /\ call.ok
              /\ call.token \notin DOMAIN call.sessions
              /\ DOMAIN sessions = (DOMAIN call.sessions) \cup {call.token}
              /\ \A k \in DOMAIN call.sessions :
                   sessions[k] = call.sessions[k]
              /\ sessions[call.token].user_id \in named
              /\ ~(sessions[call.token].expires_at < call.at)
              /\ get_user_by_id(sessions[call.token].user_id) # None
         ELSE /\ ~call.ok
              /\ users = call.users
              /\ sessions = call.sessions

\* a login with a wrong password was refused for a user who has a session
\* from an earlier login
C29_Witness ==
  /\ call.op = "login"
  /\ ~call.ok
  /\ call.arg = [username |-> "alice", password |-> "guess"]
  /\ \E k \in DOMAIN sessions : sessions[k].user_id = "u1"
  /\ users["u1"].last_login = Some(0)
  /\ now > 0

(***************************************************************************)
(* The cover cache (server/state.rs, get_cover).  The handlers of the      *)
(* cover, thumbnail and placeholder routes run on the threads of the       *)
(* runtime, so several get_cover calls can be in progress at once.         *)
(* std::fs::write creates or truncates the file and then writes the        *)
(* buffer: between the two the file exists and is empty.                   *)
(***************************************************************************)
\* the most cover requests and the most file changes while they are served
MaxCoverRequests == 3
MaxCoverFsOps == 1

\* extract_cover: the cover image inside the file as it is now, an error
\* when the file cannot be opened
extract_cover(path) ==
  IF files[path] = NoFile \/ path \in unreadable
    THEN None
    ELSE Some(<< "jpeg", files[path].size, files[path].mtime >>)

\* a file that was created or truncated and not written yet
EmptyFile == << >>

coverFrame ==
  << fsVars, now, books, mirror, loaded, scanning, scan, started, dropped,
     foreign_keys, progressVars, noteVars, call, pool, db_lock, authVars >>

\* get_cover(&book) for a book get_book found: cache_path.exists() and
\* std::fs::read, a hit returns what the file holds
CoverLookup(r) ==
  /\ cover_req[r].pc \in {"idle", "done"}
  /\ budget.sync > 0
  /\ \E book \in mirror :
       IF book.id \in DOMAIN cover_cache
         THEN cover_req' = [cover_req EXCEPT ![r] =
                [pc |-> "done", book |-> book, hit |-> TRUE,
                 result |-> Some(cover_cache[book.id])]]
         ELSE cover_req' = [cover_req EXCEPT ![r] =
                [pc |-> "extract", book |-> book, hit |-> FALSE]]
  /\ budget' = [budget EXCEPT !.sync = @ - 1]
  /\ UNCHANGED << cover_cache, coverFrame >>

\* handler.extract_cover(&book.path).ok()??
CoverExtract(r) ==
  /\ cover_req[r].pc = "extract"
  /\ LET cover_data == extract_cover(cover_req[r].book.path)
     IN cover_req' = [cover_req EXCEPT ![r] =
          IF cover_data = None
            THEN [pc |-> "done", book |-> @.book, hit |-> FALSE,
                  result |-> None]
            ELSE [pc |-> "create", book |-> @.book, hit |-> FALSE,
                  cover_data |-> cover_data[1]]]
  /\ UNCHANGED << budget, cover_cache, coverFrame >>

\* std::fs::write, File::create: the cache file exists and is empty
CoverCreate(r) ==
  /\ cover_req[r].pc = "create"
  /\ cover_cache' = (cover_req[r].book.id :> EmptyFile) @@
                    [i \in (DOMAIN cover_cache) \ {cover_req[r].book.id} |->
                       cover_cache[i]]
  /\ cover_req' = [cover_req EXCEPT ![r].pc = "write"]
  /\ UNCHANGED << budget, coverFrame >>

\* std::fs::write, write_all: the buffer is in the file; Some(cover_data)
CoverWrite(r) ==
  /\ cover_req[r].pc = "write"
  /\ cover_cache' = [cover_cache EXCEPT
       ![cover_req[r].book.id] = cover_req[r].cover_data]
  /\ cover_req' = [cover_req EXCEPT ![r] =
       [pc |-> "done", book |-> @.book, hit |-> FALSE,
        result |-> Some(@.cover_data)]]
  /\ UNCHANGED << budget, coverFrame >>

InitCoverRequests ==
  /\ IndexedCatalog
  /\ budget = [fs |-> MaxCoverFsOps, calls |-> 0, errors |-> 0,
               failures |-> 0, sync |-> MaxCoverRequests, horizon |-> 0]
  /\ foreign_keys \in BOOLEAN
  /\ reading_progress = {}
  /\ progress_seq = 0
  /\ sdr_backups = {}
  /\ hist = [progress |-> << >>, sdr |-> << >>, recent |-> << >>]
  /\ highlights = << >>
  /\ bookmarks = << >>
  /\ call = NoCall
  /\ InitOther

NextCoverRequests ==
  \/ \E r \in CoverThreads : CoverLookup(r)
  \/ \E r \in CoverThreads : CoverExtract(r)
  \/ \E r \in CoverThreads : CoverCreate(r)
  \/ \E r \in CoverThreads : CoverWrite(r)
  \/ \E p \in Paths : ModifyFile(p)
  \/ \E p \in Paths : DeleteFile(p)

SpecCoverRequests == InitCoverRequests /\ [][NextCoverRequests]_vars

(***************************************************************************)
(* C25.  A get_cover that finds a cache file for the book id returns what  *)
(* the file holds, and a cache file that holds a cover holds that same     *)
(* cover ever after, whatever happens to the book's file.                  *)
(***************************************************************************)
CoverKept ==
  \A i \in DOMAIN cover_cache :
    cover_cache[i] # EmptyFile =>
      i \in DOMAIN cover_cache' /\ cover_cache'[i] = cover_cache[i]

C25_CachedCoverKept == [][CoverKept]_vars

(***************************************************************************)
(* C26.  Every get_cover that returns a cover returns a complete extracted *)
(* cover, never the content of a cache file that is being written, and     *)
(* when no write is in progress a cache file holds a complete cover.       *)
(***************************************************************************)
C26_NoPartialCover ==
  /\ \A r \in CoverThreads :
       cover_req[r].pc = "done" /\ cover_req[r].result # None
         => cover_req[r].result # Some(EmptyFile)
  /\ (\A r \in CoverThreads : cover_req[r].pc # "write")
       => \A i \in DOMAIN cover_cache : cover_cache[i] # EmptyFile

(***************************************************************************)
(* Deleting annotations: DELETE /highlight/{id} and DELETE /bookmark/{id}, *)
(* over stores that hold annotations of either user.                       *)
(***************************************************************************)
\* the most delete requests
MaxDeleteCalls == 2

\* SELECT ... FROM highlights WHERE user_id = ?1 AND book_id = ?2: the rows
\* of the result (ORDER BY page, created_at arranges them)
get_highlights(table, user_id, book_id) ==
  { table[i] : i \in {j \in DOMAIN table : /\ table[j].user_id = user_id
                                            /\ table[j].book_id = book_id} }

\* SELECT ... FROM bookmarks WHERE user_id = ?1 AND book_id = ?2
get_bookmarks(table, user_id, book_id) ==
  { table[i] : i \in {j \in DOMAIN table : /\ table[j].user_id = user_id
                                            /\ table[j].book_id = book_id} }

\* delete_highlight that does not look at the user
delete_highlight_any(table, id, user_id) ==
  LET hit == {i \in DOMAIN table : i = id}
  IN [table |-> [i \in (DOMAIN table) \ hit |-> table[i]],
      removed |-> hit # {}]

\* DELETE FROM highlights WHERE id = ?1 AND user_id = ?2; Ok(rows > 0)
delete_highlight(table, id, user_id) ==
  LET hit == {i \in DOMAIN table : i = id /\ table[i].user_id = user_id}
  IN [table |-> [i \in (DOMAIN table) \ hit |-> table[i]],
      removed |-> hit # {}]

\* DELETE FROM bookmarks WHERE id = ?1 AND user_id = ?2; Ok(rows > 0)
delete_bookmark(table, id, user_id) ==
  LET hit == {i \in DOMAIN table : i = id /\ table[i].user_id = user_id}
  IN [table |-> [i \in (DOMAIN table) \ hit |-> table[i]],
      removed |-> hit # {}]

\* the ids of the stored annotations and of the delete requests
StoredNoteIds == {"n1", "r1"}
DeleteIds == {"n1", "r1", "r2"}

\* the highlight and the bookmark a user has stored under an id, as
\* sync_add_highlight and sync_add_bookmark build them
StoredHighlight(i, u) ==
  [ id |-> i, user_id |-> u, book_id |-> new_v5("top/a.pdf"),
    device_id |-> "kobo", page |-> Some(1), chapter |-> "one",
    text |-> "first", note |-> Null, color |-> "yellow",
    pos0 |-> "p10", pos1 |-> "p11", created_at |-> 0, updated_at |-> 0 ]
StoredBookmark(i, u) ==
  [ id |-> i, user_id |-> u, book_id |-> new_v5("top/a.pdf"),
    page |-> Some(1), position_data |-> "xp1", name |-> Null,
    created_at |-> 0 ]

\* who owns which stored annotation
NoteOwners == UNION { [ids -> Users] : ids \in SUBSET StoredNoteIds }

\* sync_delete_highlight: the id of the path, the user of the session
SyncDeleteHighlight ==
  /\ budget.sync > 0
  /\ \E u \in Users, i \in DeleteIds :
       LET r == delete_highlight(highlights, i, u)
       IN /\ highlights' = r.table
          /\ call' = [ op |-> "delete_highlight",
                       arg |-> [id |-> i, user_id |-> u],
                       before |-> highlights, result |-> r.removed ]
  /\ budget' = [budget EXCEPT !.sync = @ - 1]
  /\ UNCHANGED otherVars
  /\ UNCHANGED << fsVars, now, books, mirror, loaded, scanning, scan, started,
                  dropped, foreign_keys, progressVars, bookmarks >>

\* sync_delete_bookmark: the id of the path, the user of the session
SyncDeleteBookmark ==
  /\ budget.sync > 0
  /\ \E u \in Users, i \in DeleteIds :
       LET r == delete_bookmark(bookmarks, i, u)
       IN /\ bookmarks' = r.table
          /\ call' = [ op |-> "delete_bookmark",
                       arg |-> [id |-> i, user_id |-> u],
                       before |-> bookmarks, result |-> r.removed ]
  /\ budget' = [budget EXCEPT !.sync = @ - 1]
  /\ UNCHANGED otherVars
  /\ UNCHANGED << fsVars, now, books, mirror, loaded, scanning, scan, started,
                  dropped, foreign_keys, progressVars, highlights >>

InitNoteDeletes ==
  /\ IndexedCatalog
  /\ budget = [fs |-> 0, calls |-> 0, errors |-> 0, failures |-> 0,
               sync |-> MaxDeleteCalls, horizon |-> 0]
  /\ foreign_keys \in BOOLEAN
  /\ reading_progress = {}
  /\ progress_seq = 0
  /\ sdr_backups = {}
  /\ hist = [progress |-> << >>, sdr |-> << >>, recent |-> << >>]
  /\ \E owner \in NoteOwners :
       highlights = [i \in DOMAIN owner |-> StoredHighlight(i, owner[i])]
  /\ \E owner \in NoteOwners :
       bookmarks = [i \in DOMAIN owner |-> StoredBookmark(i, owner[i])]
  /\ call = NoCall
  /\ InitOther

NextNoteDeletes ==
  \/ SyncDeleteHighlight
  \/ SyncDeleteBookmark

SpecNoteDeletes == InitNoteDeletes /\ [][NextNoteDeletes]_vars

(***************************************************************************)
(* C31.  delete_highlight(id, user_id) and delete_bookmark(id, user_id)    *)
(* remove the record with that id when it belongs to that user and return  *)
(* true; otherwise they return false and the table is as it was.  No other *)
(* record goes, and a removed record is no longer among get_highlights     *)
(* (get_bookmarks) of its user and book.                                   *)
(***************************************************************************)
C31_DeleteOwnAnnotation ==
  call.op \in {"delete_highlight", "delete_bookmark"} =>
    LET table == IF call.op = "delete_highlight" THEN highlights
                                                 ELSE bookmarks
        listed(u, b) == IF call.op = "delete_highlight"
                          THEN get_highlights(highlights, u, b)
                          ELSE get_bookmarks(bookmarks, u, b)
        own == /\ call.arg.id \in DOMAIN call.before
               /\ call.before[call.arg.id].user_id = call.arg.user_id
    IN /\ call.result = own
       /\ IF own
            THEN /\ DOMAIN table = (DOMAIN call.before) \ {call.arg.id}
                 /\ \A i \in DOMAIN table : table[i] = call.before[i]
                 /\ call.before[call.arg.id] \notin
                      listed(call.arg.user_id,
                             call.before[call.arg.id].book_id)
            ELSE table = call.before

\* a user asked to delete the highlight of another user, which is still
\* listed for its owner
C31_Witness ==
  /\ call.op = "delete_highlight"
  /\ ~call.result
  /\ call.arg.id \in DOMAIN highlights
  /\ highlights[call.arg.id].user_id # call.arg.user_id
  /\ highlights[call.arg.id] \in
       get_highlights(highlights, highlights[call.arg.id].user_id,
                      new_v5("top/a.pdf"))

(***************************************************************************)
(* C32.  The step that walks a library records the id of every recognized  *)
(* file it found, hands to extraction exactly the files whose id is not    *)
(* among the stored entries of that library or is stored with another size *)
(* or mtime, and counts the others as unchanged; a file handed over is     *)
(* counted as new when its id is not among those entries and as updated    *)
(* otherwise; new + updated + unchanged, with the files still waiting, is  *)
(* the number of recognized files.                                         *)
(***************************************************************************)
Classifies(t) ==
  LET library == Head(scan[t].libs)
      stored == {i \in DOMAIN books : books[i].library_id = library.id}
      found == {p \in Under(library.path) :
                  /\ files[p] # NoFile
                  /\ p \notin unreadable
                  /\ from_extension(Extension(p)) # Null}
      changed == {p \in found :
                    \/ new_v5(p) \notin stored
                    \/ books[new_v5(p)].file_size # files[p].size
                    \/ books[new_v5(p)].mtime # files[p].mtime}
      walked == scan[t].pc = "lib" /\ scan'[t].pc = "process"
      counts == scan[t].stats[scan[t].lib]
      counts2 == scan'[t].stats[scan'[t].lib]
      taken == scan[t].todo \ scan'[t].todo
  IN /\ walked =>
          /\ scan'[t].scanned = {new_v5(p) : p \in found}
          /\ {f.path : f \in scan'[t].todo} = changed
          /\ counts2.unchanged = Cardinality(found \ changed)
          /\ counts2.new = 0 /\ counts2.updated = 0
     /\ scan[t].pc = "process" /\ scan'[t].pc = "process" =>
          /\ Cardinality(taken) <= 1
          /\ \A f \in taken :
               IF new_v5(f.path) \in DOMAIN scan[t].existing
                 THEN /\ counts2.updated = counts.updated + 1
                      /\ counts2.new = counts.new
                 ELSE /\ counts2.new = counts.new + 1
                      /\ counts2.updated = counts.updated
          /\ counts2.unchanged = counts.unchanged
     /\ scan'[t].pc = "process" =>
          counts2.new + counts2.updated + counts2.unchanged
            + Cardinality(scan'[t].todo) = Cardinality(scan'[t].scanned)

C32_Classification == [][\A t \in DOMAIN scan : Classifies(t)]_vars

\* the walk of a library whose files an earlier scan had indexed as new
\* found one of them unchanged, and the batch has counted the other as
\* updated
C32_Witness ==
  \E t \in DOMAIN scan :
    /\ scan[t].pc = "process"
    /\ scan[t].todo = {}
    /\ Cardinality(scan[t].scanned) = 2
    /\ scan[t].stats[scan[t].lib].new = 0
    /\ scan[t].stats[scan[t].lib].updated = 1
    /\ scan[t].stats[scan[t].lib].unchanged = 1

(***************************************************************************)
(* Scans that end.  scan_all_libraries clears the flag on the line after   *)
(* do_incremental_scan returns; a panic inside it unwinds past that line.  *)
(* The batch builds its pool with ThreadPoolBuilder::build, falls back to  *)
(* the default builder and unwraps: when the threads cannot be spawned the *)
(* calling thread panics.  The threads that trigger scans (the background  *)
(* thread, the ticker, a request) are scheduled fairly.                    *)
(***************************************************************************)
\* the most triggers, the most store errors and the most failed pool builds
MaxLiveCalls == 3
MaxLiveErrors == 1
MaxPoolFailures == 1

\* neither build() returns a pool: unwrap() panics and the thread leaves
\* scan_all_libraries without reaching the store(false)
ScanPoolPanic(t) ==
  /\ scan[t].pc = "process"
  /\ scan[t].todo # {}
  /\ scan[t].stats[scan[t].lib].new = 0
  /\ scan[t].stats[scan[t].lib].updated = 0
  /\ budget.failures > 0
  /\ budget' = [budget EXCEPT !.failures = @ - 1]
  /\ scan' = [scan EXCEPT ![t].pc = "panicked", ![t].result = "panic"]
  /\ UNCHANGED syncVars
  /\ UNCHANGED << fsVars, now, books, mirror, loaded, scanning, started,
                  dropped >>

InitLive ==
  InitWith(Threads, [fs |-> 0, calls |-> MaxLiveCalls,
                     errors |-> MaxLiveErrors, failures |-> MaxPoolFailures,
                     sync |-> 0, horizon |-> 0], {TRUE})

NextLive ==
  \/ Startup
  \/ \E t \in DOMAIN scan : ScanBegin(t)
  \/ \E t \in DOMAIN scan : ScanSkip(t)
  \/ \E t \in DOMAIN scan : ScanStep(t)
  \/ \E t \in DOMAIN scan : ScanStoreError(t)
  \/ \E t \in DOMAIN scan : ScanPoolPanic(t)

SpecLive ==
  /\ InitLive
  /\ [][NextLive]_vars
  /\ \A t \in Threads : WF_vars(ScanStep(t))

(***************************************************************************)
(* C33.  Whenever the scanning flag is set it is eventually cleared: the   *)
(* scan that set it ends, with Ok or with Err, and a trigger that comes    *)
(* after that runs a scan.                                                 *)
(***************************************************************************)
C33_ScanEndsFlagCleared == scanning ~> ~scanning

(***************************************************************************)
(* C34.  No step of the scan of a library deletes or changes a stored      *)
(* entry whose library_id is another library.                              *)
(***************************************************************************)
ScanKeepsOtherLibraries ==
  \A t \in DOMAIN scan : \A i \in DOMAIN books :
    scan[t].lib # Null /\ books[i].library_id # scan[t].lib =>
      i \in DOMAIN books' /\ books'[i] = books[i]

C34_ScanKeepsOtherLibraries == [][ScanKeepsOtherLibraries]_vars

(***************************************************************************)
(* C35.  A save_highlight or save_bookmark of a user whose record has the  *)
(* id of a record stored for another user leaves that record as it was.    *)
(***************************************************************************)
C35_SaveKeepsOtherUsersNotes ==
  call.op \in {"save_highlight", "save_bookmark"} =>
    LET table == IF call.op = "save_highlight" THEN highlights ELSE bookmarks
    IN call.arg.id \in DOMAIN call.before
       /\ call.before[call.arg.id].user_id # call.arg.user_id
         => table[call.arg.id] = call.before[call.arg.id]

(***************************************************************************)
(* save_progress called for the devices of the users, one call after       *)
(* another.                                                                *)
(***************************************************************************)
\* the most calls of save_progress
MaxProgressCalls == 3

ProgressDevices == {"kobo", "kindle", Null}

\* save_progress(&progress) with a progress as sync_update_progress builds it
DbSaveProgress ==
  /\ budget.sync > 0
  /\ \E u \in Users, b \in SyncBooks, d \in ProgressDevices,
        req \in ProgressRequests, t \in ClockReadings :
       LET progress ==
             [ id |-> 0, user_id |-> u, book_id |-> b, device_id |-> d,
               current_page |-> Some(req.current_page),
               percentage |-> Some(req.percentage), status |-> req.status,
               started_at |-> Some(t), finished_at |-> None,
               updated_at |-> t ]
           inserts == progress_conflicts(reading_progress, progress) = {}
           ok == ~inserts \/ ReferenceHolds(b)
       IN /\ now' = t
          /\ reading_progress' =
               IF ok THEN save_progress(reading_progress, progress,
                                        progress_seq + 1)
                     ELSE reading_progress
          /\ progress_seq' = IF ok /\ inserts THEN progress_seq + 1
                                              ELSE progress_seq
          /\ call' = [ op |-> "save_progress", arg |-> progress,
                       before |-> reading_progress, ok |-> ok ]
  /\ budget' = [budget EXCEPT !.sync = @ - 1]
  /\ UNCHANGED otherVars
  /\ UNCHANGED << fsVars, books, mirror, loaded, scanning, scan, started,
                  dropped, foreign_keys, sdr_backups, hist, noteVars >>

InitProgressStore ==
  /\ IndexedCatalog
  /\ budget = [fs |-> 0, calls |-> 0, errors |-> 0, failures |-> 0,
               sync |-> MaxProgressCalls, horizon |-> 0]
  /\ foreign_keys \in BOOLEAN
  /\ reading_progress = {}
  /\ progress_seq = 0
  /\ sdr_backups = {}
  /\ hist = [progress |-> << >>, sdr |-> << >>, recent |-> << >>]
  /\ highlights = << >>
  /\ bookmarks = << >>
  /\ call = NoCall
  /\ InitOther

NextProgressStore == DbSaveProgress

SpecProgressStore == InitProgressStore /\ [][NextProgressStore]_vars

(***************************************************************************)
(* C36.  After save_progress for (user, book, device) every row that was   *)
(* stored for another user, another book or another device is in the table *)
(* as it was.                                                              *)
(***************************************************************************)
C36_SaveProgressKeepsOtherKeys ==
  call.op = "save_progress" =>
    \A r \in call.before :
      \/ r.user_id # call.arg.user_id
      \/ r.book_id # call.arg.book_id
      \/ r.device_id # call.arg.device_id
      => r \in reading_progress

\* a second report of one device rewrote its row while the row the other
\* device of the same user wrote for the same book is still there
C36_Witness ==
  /\ call.op = "save_progress"
  /\ call.ok
  /\ \E r \in call.before :
       /\ r.user_id = call.arg.user_id
       /\ r.book_id = call.arg.book_id
       /\ r.device_id = call.arg.device_id
       /\ r \notin reading_progress
  /\ \E r \in reading_progress :
       /\ r.user_id = call.arg.user_id
       /\ r.book_id = call.arg.book_id
       /\ r.device_id \notin {call.arg.device_id, Null}

(***************************************************************************)
(* The batch of a scan for every stored state: the store holds rows of an  *)
(* earlier scan, some of them of files that have changed or gone since,    *)
(* and the clock runs while the threads of the pool work.                  *)
(***************************************************************************)
\* the row an earlier scan of the first library stored for the file at p
StoredRow(p, mtime) ==
  book_to_stored(
    extract_book_metadata([path |-> p, size |-> 1, mtime |-> mtime],
                          TRUE, 0).book,
    "L1", 0)

InitBatch ==
  /\ dirs = Dirs
  /\ \E present \in SUBSET Paths :
       files = [p \in Paths |-> IF p \in present
                                   THEN [size |-> 1, mtime |-> 1] ELSE NoFile]
  /\ unreadable = {}
  /\ now = 0
  /\ \E known \in SUBSET Paths : \E stale \in SUBSET known :
       books = [i \in {new_v5(p) : p \in known} |->
                  StoredRow(PathOf(i), IF PathOf(i) \in stale THEN 2 ELSE 1)]
  /\ mirror = {}
  /\ loaded = FALSE
  /\ scanning = FALSE
  /\ scan = [t \in {"t1"} |-> IdleScan]
  /\ started = FALSE
  /\ dropped = 0
  /\ budget = [fs |-> 0, calls |-> MaxPoolScans, errors |-> 0,
               failures |-> 0, sync |-> 0, horizon |-> MaxNow]
  /\ foreign_keys = TRUE
  /\ reading_progress = {}
  /\ progress_seq = 0
  /\ sdr_backups = {}
  /\ hist = [progress |-> << >>, sdr |-> << >>, recent |-> << >>]
  /\ highlights = << >>
  /\ bookmarks = << >>
  /\ call = NoCall
  /\ \E workers \in 0 .. MaxWorkers :
       pool = [workers |-> workers, active |-> {}]
  /\ db_lock = Null
  /\ InitTables
  /\ InitCovers

NextBatch ==
  \/ Startup
  \/ \E t \in DOMAIN scan : ScanBegin(t)
  \/ \E t \in DOMAIN scan : ScanList(t)
  \/ \E t \in DOMAIN scan : ScanLibrary(t)
  \/ \E t \in DOMAIN scan : WorkerTake(t)
  \/ \E w \in pool.active : WorkerExtracted(w)
  \/ \E w \in pool.active : WorkerLock(w)
  \/ \E t \in DOMAIN scan : \E w \in pool.active : WorkerSave(t, w)
  \/ \E t \in DOMAIN scan : ScanPrune(t)
  \/ \E t \in DOMAIN scan : ScanReload(t)
  \/ \E t \in DOMAIN scan : ScanRelease(t)

SpecBatch == InitBatch /\ [][NextBatch]_vars

\* what one library's batch makes of a table when every file is saved at the
\* same instant: the table after the batch, the three counts, and the table
\* after the pruning that follows
BatchOf(table, library, clock) ==
  LET existing == get_library_books(table, library.id)
      found == WalkFiles(library.path)
      changed == {p \in found : ~IsUnchanged(existing, p)}
      stored(p) ==
        book_to_stored(
          extract_book_metadata([path |-> p, size |-> files[p].size,
                                 mtime |-> files[p].mtime], TRUE, clock).book,
          library.id, clock)
      after == [i \in DOMAIN table \cup {new_v5(p) : p \in changed} |->
                  IF PathOf(i) \in changed
                    THEN save_book(table, stored(PathOf(i)))[i]
                    ELSE table[i]]
      gone == RemovedIds(existing, {new_v5(p) : p \in found})
  IN [ table |-> after,
       new |-> Cardinality({p \in changed : new_v5(p) \notin DOMAIN existing}),
       updated |-> Cardinality({p \in changed : new_v5(p) \in DOMAIN existing}),
       unchanged |-> Cardinality(found \ changed),
       wrote |-> {new_v5(p) : p \in changed},
       pruned |-> [i \in DOMAIN after \ gone |-> after[i]] ]

\* a table without the two columns that are read from the clock
NoTimes(table) ==
  [i \in DOMAIN table |->
     [ id |-> table[i].id, library_id |-> table[i].library_id,
       title |-> table[i].title, path |-> table[i].path,
       format |-> table[i].format, file_size |-> table[i].file_size,
       mtime |-> table[i].mtime ]]

\* the batch of thread t has processed every file and nothing was pruned yet
BatchEnd(t) ==
  /\ scan[t].pc = "process"
  /\ scan[t].todo = {}
  /\ pool.active = {}

\* the batch that has just ended, computed from the store as the scan found
\* it and from the files
ExpectedBatch(t) ==
  IF scan[t].lib = "L1"
    THEN BatchOf(scan[t].pre, list_libraries[1], 0)
    ELSE BatchOf(BatchOf(scan[t].pre, list_libraries[1], 0).pruned,
                 list_libraries[2], 0)

BatchCounts(t) ==
  /\ scan[t].stats[scan[t].lib].new = ExpectedBatch(t).new
  /\ scan[t].stats[scan[t].lib].updated = ExpectedBatch(t).updated
  /\ scan[t].stats[scan[t].lib].unchanged = ExpectedBatch(t).unchanged

(***************************************************************************)
(* C37.  At the end of a batch the three counts and every column of the    *)
(* store except created_at and updated_at are what the files and the store *)
(* before the scan determine, whatever the number of workers and the order *)
(* in which they ran.                                                      *)
(***************************************************************************)
C37_BatchSameButTimes ==
  \A t \in DOMAIN scan :
    BatchEnd(t) =>
      /\ BatchCounts(t)
      /\ NoTimes(books) = NoTimes(ExpectedBatch(t).table)

\* two workers have saved two files of the batch, one after the clock moved
C37_Witness ==
  \E t \in DOMAIN scan :
    /\ BatchEnd(t)
    /\ num_threads(pool.workers) = 2
    /\ Cardinality(ExpectedBatch(t).wrote) >= 2
    /\ ExpectedBatch(t).updated >= 1
    /\ \E i, j \in ExpectedBatch(t).wrote :
         books[i].updated_at # books[j].updated_at

\* C37 as stated: the whole store, the clock columns included, is what the
\* files and the store before the scan determine, so the rows of one batch
\* carry one instant
C37_BatchSame ==
  \A t \in DOMAIN scan :
    BatchEnd(t) =>
      /\ BatchCounts(t)
      /\ NoTimes(books) = NoTimes(ExpectedBatch(t).table)
      /\ \E c \in 0 .. now :
           \A i \in ExpectedBatch(t).wrote : books[i].updated_at = c

(***************************************************************************)
(* The server is started on a database an earlier run has filled, after a  *)
(* library directory was removed or not: the rows of a file inside both    *)
(* roots belong to the library that stored it first.                       *)
(***************************************************************************)
InitSkip ==
  /\ dirs \in {Dirs, {"top"}, {}}
  /\ \E present \in SUBSET {p \in Paths : Parent(p) \in dirs} :
       files = [p \in Paths |-> IF p \in present
                                   THEN [size |-> 1, mtime |-> 1] ELSE NoFile]
  /\ unreadable = {}
  /\ now = 0
  /\ \E known \in SUBSET Paths : \E owner \in LibIds :
       books = [i \in {new_v5(p) : p \in known} |->
                  [StoredRow(PathOf(i), 1) EXCEPT
                     !.library_id = IF PathOf(i) \in Under("top/sub")
                                      THEN owner ELSE "L1"]]
  /\ mirror = {}
  /\ loaded = FALSE
  /\ scanning = FALSE
  /\ scan = [t \in {"t1"} |-> IdleScan]
  /\ started = FALSE
  /\ dropped = 0
  /\ budget = [fs |-> MaxSkipFsOps, calls |-> MaxSkipScans, errors |-> 0,
               failures |-> 0, sync |-> 0, horizon |-> 0]
  /\ foreign_keys = TRUE
  /\ reading_progress = {}
  /\ progress_seq = 0
  /\ sdr_backups = {}
  /\ hist = [progress |-> << >>, sdr |-> << >>, recent |-> << >>]
  /\ highlights = << >>
  /\ bookmarks = << >>
  /\ call = NoCall
  /\ InitOther

SpecSkip == InitSkip /\ [][Next]_vars

(***************************************************************************)
(* C38.  When a scan that found the root of a library missing has ended,   *)
(* the rows of that library are the rows the store held when the scan      *)
(* reached it, the loop has gone through every library, and the mirror     *)
(* has been rebuilt from the store.                                        *)
(***************************************************************************)
C38_MissingRootSkipped ==
  \A t \in DOMAIN scan :
    /\ scan[t].pc = "release"
    /\ scan[t].result = "ok"
    /\ \E s \in scan[t].seen : s.missing
    => /\ \A s \in scan[t].seen :
            s.missing => get_library_books(books, s.id) = s.rows
       /\ {s.id : s \in scan[t].seen} = LibIds
       /\ loaded
       /\ mirror = LoadBooks(books, now)

\* the second library, which has a row, was skipped by a scan that indexed a
\* file of the first
C38_Witness ==
  \E t \in DOMAIN scan :
    /\ scan[t].pc = "release"
    /\ scan[t].result = "ok"
    /\ \E s \in scan[t].seen :
         /\ s.id = "L2"
         /\ s.missing
         /\ s.rows # << >>
         /\ get_library_books(books, "L2") = s.rows
    /\ scan[t].stats["L1"].new > 0
    /\ mirror # {}

\* the closures that end in this step: each has run its save_book
Saved == {w \in pool.active : w.pc = "save" /\ w \notin pool'.active}

(***************************************************************************)
(* C39.  A row that is in the books table before and after a step has the  *)
(* created_at, library_id and format it had; when the step is the save of  *)
(* a file whose row exists, the row has the file's title, path, size and   *)
(* mtime and the instant of the save as updated_at.                        *)
(***************************************************************************)
C39_InsertFieldsKept ==
  [][ /\ \A i \in DOMAIN books \cap DOMAIN books' :
           /\ books'[i].created_at = books[i].created_at
           /\ books'[i].library_id = books[i].library_id
           /\ books'[i].format = books[i].format
      /\ \A w \in Saved :
           new_v5(w.file.path) \in DOMAIN books =>
             LET row == books'[new_v5(w.file.path)]
             IN /\ row.title = "meta"
                /\ row.path = w.file.path
                /\ row.file_size = w.file.size
                /\ row.mtime = w.file.mtime
                /\ row.updated_at = now' ]_vars

\* the second library has saved again, a second after the row was created,
\* the file whose row the first library owns
C39_Witness ==
  \E i \in DOMAIN books :
    /\ books[i].library_id = "L1"
    /\ books[i].created_at = 0
    /\ books[i].updated_at = 1
    /\ \E t \in DOMAIN scan : scan[t].lib = "L2" /\ i \in scan[t].wrote

(***************************************************************************)
(* Accounts are deleted and created again while their tokens are in use.   *)
(* budget.calls counts the accounts still to be created.                   *)
(***************************************************************************)
MaxRegistrations == 1

\* the ids Uuid::new_v4 returns, in the order of the calls
NewUserIds == << "u3", "u4", "u5" >>

\* an id made from the username, the same for every account of that name
new_user_id_named(username) ==
  IF \E u \in Users : UserNames[u] = username
    THEN CHOOSE u \in Users : UserNames[u] = username
    ELSE NewUserIds[1]

\* uuid::Uuid::new_v4().to_string(): an id no earlier call has returned
new_user_id(username) == NewUserIds[budget.calls]

\* create_user(username, password, "user"); the names and passwords of
\* Credentials pass the validation
AuthCreateUser(c) ==
  /\ budget.sync > 0
  /\ budget.calls > 0
  /\ budget.calls <= Len(NewUserIds)
  /\ LET user == [id |-> new_user_id(c.username), username |-> c.username,
                  password_hash |-> hash_password(c.password),
                  display_name |-> Null, role |-> "user", created_at |-> now,
                  last_login |-> None]
         r == create_user(users, user)
     IN /\ users' = r.table
        /\ call' = [op |-> "create_user", arg |-> user, before |-> users,
                    ok |-> r.ok, error |-> r.error]
  /\ budget' = [budget EXCEPT !.sync = @ - 1, !.calls = @ - 1]
  /\ UNCHANGED << now, sessions, libraries, issued, progressVars, noteVars,
                  authFrame >>

InitAccounts ==
  /\ dirs = Dirs
  /\ files = [p \in Paths |-> NoFile]
  /\ unreadable = {}
  /\ now = 0
  /\ books = << >>
  /\ mirror = {}
  /\ loaded = TRUE
  /\ scanning = FALSE
  /\ scan = [t \in {"t1"} |-> IdleScan]
  /\ started = TRUE
  /\ dropped = 0
  /\ budget = [fs |-> 0, calls |-> MaxRegistrations, errors |-> 0,
               failures |-> 0, sync |-> MaxAuthCalls, horizon |-> 0]
  /\ foreign_keys \in BOOLEAN
  /\ reading_progress = {}
  /\ progress_seq = 0
  /\ sdr_backups = {}
  /\ hist = [progress |-> << >>, sdr |-> << >>, recent |-> << >>]
  /\ highlights = << >>
  /\ bookmarks = << >>
  /\ call = NoCall
  /\ InitOther

NextAccounts ==
  \/ ClockAdvance
  \/ \E c \in Credentials : AuthLogin(c)
  \/ \E token \in PresentedTokens : AuthValidateToken(token)
  \/ \E token \in PresentedTokens : AuthLogout(token)
  \/ \E username \in {"alice"} : AuthDeleteUser(username)
  \/ \E c \in Credentials : AuthCreateUser(c)

SpecAccounts == InitAccounts /\ [][NextAccounts]_vars

(***************************************************************************)
(* C40.  A validate_token of a token that was issued to a user deleted     *)
(* since returns None, whatever was called in between: the session is      *)
(* gone, or it refers to an id that no later account has.                  *)
(***************************************************************************)
C40_DeletedUsersTokensRefused ==
  \A k \in DOMAIN issued :
    issued[k].deleted =>
      /\ call.op = "validate_token" /\ call.arg = k => call.result = None
      /\ k \in DOMAIN sessions => sessions[k].user_id \notin DOMAIN users

\* alice logged in and was deleted, an account of her name was created
\* again, and her old token, whose session is still stored, was refused
C40_Witness ==
  \E k \in DOMAIN issued :
    /\ issued[k].deleted
    /\ k \in DOMAIN sessions
    /\ \E i \in DOMAIN users : users[i].username = "alice"
    /\ call.op = "validate_token"
    /\ call.arg = k
    /\ call.result = None

====
